---- MODULE Spec2Model ----
(***************************************************************************)
(* A model of simple_file_transfer_v2: the mapped namespace                *)
(* (src/src/fs/mapped_fs.rs), the cursor browser (src/src/fs/browser.rs)   *)
(* and the server's main, accept loop and connection handlers              *)
(* (src/src/bin/server.rs).                                                *)
(*                                                                         *)
(* Paths and names are strings; a string is read as its sequence of        *)
(* characters (Len, SubSeq, \o).  Path semantics are those of              *)
(* std::path on a Unix host: the separator is "/", there is no prefix      *)
(* component.                                                              *)
(***************************************************************************)
EXTENDS Naturals, Sequences, FiniteSets

VARIABLES
    map,        \* MappedFS.map: the (display name, real path) pairs of the HashMap
    cursors,    \* Browser.cursors: id -> [path, state]
    lastOp,     \* history: the operation that produced this state, its inputs and its result
    conns,      \* the handle_socket tasks: connection -> [pc, request, response, browser, ...]
    server,     \* main and the accept task of server.rs, and the watch channel
    call,       \* a list() call in progress: its spawned get_element tasks and its output
    lock,       \* the RwLock around the name table: the tasks holding it
    cli,        \* the add() or remove() call of the operator's thread, in progress
    sampling,   \* create_cursor is in its loop, drawing ids
    wire        \* one request on its way from make_request to handle_socket

vars == <<map, cursors, lastOp, conns, server, call, lock, cli, sampling, wire>>

\* the calls followed step by step: the lock and the operator's call, the
\* loop of create_cursor, the request on the wire
steps == <<lock, cli, sampling, wire>>

\* the state of server.rs and of a list() call in progress
tasks == <<conns, server, call, steps>>

-----------------------------------------------------------------------------
(* Bounds of the model *)

\* longest generated virtual path, in characters
MaxPathLen == 4
\* most entries the name table is let grow to
MaxEntries == 3
\* Browser.cursor_limit, the constructor's argument
CursorLimit == 2

\* u16::MAX, the largest cursor id
U16Max == 65535
\* stands for "no cursor id"
NoId == U16Max + 1

-----------------------------------------------------------------------------
(* Strings *)

None == "None"

Char(s, i) == SubSeq(s, i, i)

RECURSIVE StrsUpTo(_, _)
\* every string over the alphabet of at most n characters
StrsUpTo(alphabet, n) ==
    IF n = 0 THEN {""}
    ELSE LET shorter == StrsUpTo(alphabet, n - 1)
         IN  shorter \cup { s \o c : s \in shorter, c \in alphabet }

\* byte value of the characters that occur in names
CharCode(c) ==
    CASE c = " " -> 32 [] c = "(" -> 40 [] c = ")" -> 41 [] c = "." -> 46
      [] c = "/" -> 47 [] c = "0" -> 48 [] c = "1" -> 49 [] c = "2" -> 50
      [] c = "3" -> 51 [] c = "4" -> 52 [] c = "5" -> 53 [] c = "6" -> 54
      [] c = "7" -> 55 [] c = "8" -> 56 [] c = "9" -> 57
      [] c = "a" -> 97 [] c = "b" -> 98 [] c = "c" -> 99 [] c = "d" -> 100
      [] c = "e" -> 101 [] c = "f" -> 102 [] c = "m" -> 109 [] c = "o" -> 111
      [] c = "p" -> 112 [] c = "t" -> 116 [] c = "x" -> 120
      [] OTHER -> 255

RECURSIVE StrLess(_, _)
\* OsString::cmp(a, b) = Less: lexicographic on the bytes
StrLess(a, b) ==
    IF Len(b) = 0 THEN FALSE
    ELSE IF Len(a) = 0 THEN TRUE
    ELSE IF Char(a, 1) = Char(b, 1)
         THEN StrLess(SubSeq(a, 2, Len(a)), SubSeq(b, 2, Len(b)))
         ELSE CharCode(Char(a, 1)) < CharCode(Char(b, 1))

Digit(d) ==
    CASE d = 0 -> "0" [] d = 1 -> "1" [] d = 2 -> "2" [] d = 3 -> "3"
      [] d = 4 -> "4" [] d = 5 -> "5" [] d = 6 -> "6" [] d = 7 -> "7"
      [] d = 8 -> "8" [] d = 9 -> "9"

RECURSIVE ToDecimal(_)
\* format!("{number}")
ToDecimal(n) ==
    IF n < 10 THEN Digit(n) ELSE ToDecimal(n \div 10) \o Digit(n % 10)

-----------------------------------------------------------------------------
(* std::path::Path on Unix, as far as mapped_fs.rs uses it *)

\* index of the first "/" of s at or after i, Len(s) + 1 if there is none
NextSep(s, i) ==
    IF \E j \in i..Len(s) : Char(s, j) = "/"
    THEN CHOOSE j \in i..Len(s) :
            /\ Char(s, j) = "/"
            /\ \A k \in i..(j - 1) : Char(s, k) # "/"
    ELSE Len(s) + 1

\* index of the last "/" of s, 0 if there is none
LastSep(s) ==
    IF \E j \in 1..Len(s) : Char(s, j) = "/"
    THEN CHOOSE j \in 1..Len(s) :
            /\ Char(s, j) = "/"
            /\ \A k \in (j + 1)..Len(s) : Char(s, k) # "/"
    ELSE 0

HasRoot(s) == Len(s) > 0 /\ Char(s, 1) = "/"

\* Path::is_absolute
IsAbsolute(s) == HasRoot(s)

\* a leading "." is kept as a CurDir component
IncludeCurDir(s) ==
    /\ ~HasRoot(s)
    /\ Len(s) > 0
    /\ Char(s, 1) = "."
    /\ (Len(s) = 1 \/ Char(s, 2) = "/")

Comp(kind, name, next) == [kind |-> kind, name |-> name, next |-> next]

RECURSIVE BodyComponents(_, _)
\* the components of s from index i on; next is the index the iterator
\* stands at after yielding the component
BodyComponents(s, i) ==
    IF i > Len(s) THEN << >>
    ELSE LET j    == NextSep(s, i)
             text == SubSeq(s, i, j - 1)
             next == IF j <= Len(s) THEN j + 1 ELSE j
         IN  IF text = "" \/ text = "."
             THEN BodyComponents(s, next)
             ELSE <<Comp(IF text = ".." THEN "ParentDir" ELSE "Normal", text, next)>>
                     \o BodyComponents(s, next)

\* Path::components
Components(s) ==
    IF HasRoot(s) THEN <<Comp("RootDir", "/", 2)>> \o BodyComponents(s, 2)
    ELSE IF IncludeCurDir(s) THEN <<Comp("CurDir", ".", 2)>> \o BodyComponents(s, 2)
    ELSE BodyComponents(s, 1)

\* a component without the iterator position
Plain(c) == [kind |-> c.kind, name |-> c.name]

PlainComponents(s) ==
    LET cs == Components(s) IN [i \in 1..Len(cs) |-> Plain(cs[i])]

\* Path == Path: the paths have the same components
PathEq(p, q) == PlainComponents(p) = PlainComponents(q)

\* Path::file_name: the last component if it is a normal one
FileName(s) ==
    LET cs == Components(s)
    IN  IF Len(cs) > 0 /\ cs[Len(cs)].kind = "Normal" THEN cs[Len(cs)].name ELSE None

RECURSIVE TrimLeft(_)
\* Components::trim_left: drop leading empty and "." components
TrimLeft(s) ==
    IF s = "" THEN s
    ELSE LET j    == NextSep(s, 1)
             text == SubSeq(s, 1, j - 1)
         IN  IF text = "" \/ text = "."
             THEN TrimLeft(SubSeq(s, (IF j <= Len(s) THEN j + 1 ELSE j), Len(s)))
             ELSE s

RECURSIVE TrimRight(_)
\* Components::trim_right: drop trailing empty and "." components
TrimRight(s) ==
    IF s = "" THEN s
    ELSE LET k    == LastSep(s)
             text == SubSeq(s, k + 1, Len(s))
         IN  IF text = "" \/ text = "."
             THEN TrimRight(SubSeq(s, 1, (IF k > 0 THEN k - 1 ELSE 0)))
             ELSE s

\* the rest of the path as it stands, separators and all
AsPathUntrimmed(s, i) == SubSeq(s, i, Len(s))

\* Components::as_path with the iterator standing at index i of s
AsPath(s, i) == TrimRight(TrimLeft(SubSeq(s, i, Len(s))))

\* Path::join (PathBuf::push): an absolute argument replaces the path
Join(base, ext) ==
    IF IsAbsolute(ext) THEN ext
    ELSE IF Len(base) > 0 /\ Char(base, Len(base)) # "/" THEN base \o "/" \o ext
    ELSE base \o ext

-----------------------------------------------------------------------------
(* The host filesystem: the collaborator behind tokio::fs::metadata and    *)
(* tokio::fs::read_dir.  A fixed tree.  c.lnk is a symbolic link whose     *)
(* target is missing: read_dir yields it and metadata fails on it.         *)

HostFS ==
    { [path |-> "/tmp/demo",       is_file |-> FALSE, size |-> 0, broken |-> FALSE],
      [path |-> "/tmp/demo/b.txt", is_file |-> TRUE,  size |-> 2, broken |-> FALSE],
      [path |-> "/tmp/demo/a.txt", is_file |-> TRUE,  size |-> 1, broken |-> FALSE],
      [path |-> "/tmp/demo/c.lnk", is_file |-> TRUE,  size |-> 0, broken |-> TRUE],
      [path |-> "/a/b/foo.txt",    is_file |-> TRUE,  size |-> 3, broken |-> FALSE],
      [path |-> "/e/foo.txt (1)",  is_file |-> TRUE,  size |-> 5, broken |-> FALSE],
      [path |-> "/x",              is_file |-> FALSE, size |-> 0, broken |-> FALSE],
      [path |-> "/x/x",            is_file |-> TRUE,  size |-> 4, broken |-> FALSE] }

RECURSIVE CanonFrom(_, _, _)
\* the path the host resolves the components cs[k..] to, walking on from acc
CanonFrom(cs, k, acc) ==
    IF k > Len(cs) THEN acc
    ELSE IF cs[k].kind = "Normal"
         THEN CanonFrom(cs, k + 1, (IF acc = "/" THEN "" ELSE acc) \o "/" \o cs[k].name)
    ELSE IF cs[k].kind = "ParentDir"
         THEN CanonFrom(cs, k + 1,
                        LET up == SubSeq(acc, 1, LastSep(acc) - 1)
                        IN  IF up = "" THEN "/" ELSE up)
    ELSE CanonFrom(cs, k + 1, acc)

\* the host's name resolution of an absolute path
Canon(p) == CanonFrom(Components(p), 1, "/")

\* tokio::fs::metadata(p) succeeds
HostHas(p) ==
    LET c == Canon(p) IN \E h \in HostFS : h.path = c /\ ~h.broken

HostEntry(p) ==
    LET c == Canon(p) IN CHOOSE h \in HostFS : h.path = c

\* tokio::fs::read_dir(p) succeeds
HostIsDir(p) == HostHas(p) /\ ~HostEntry(p).is_file

\* the names read_dir yields for directory p
HostChildren(p) ==
    LET c == Canon(p)
    IN  { SubSeq(h.path, LastSep(h.path) + 1, Len(h.path)) :
            h \in { g \in HostFS : g.path # c /\ SubSeq(g.path, 1, LastSep(g.path) - 1) = c } }

FSElement(name, h) == [name |-> name, is_file |-> h.is_file, size |-> h.size]

-----------------------------------------------------------------------------
(* Sequences of elements *)

RECURSIVE Perms(_)
\* every order a set can be enumerated in
Perms(S) ==
    IF S = {} THEN { << >> }
    ELSE UNION { { <<x>> \o q : q \in Perms(S \ {x}) } : x \in S }

Range(f) == { f[i] : i \in DOMAIN f }

\* cmp_fs_elements(e1, e2) = Less
cmp_fs_elements(e1, e2) == StrLess(e1.name, e2.name)

RECURSIVE InsertSorted(_, _)
InsertSorted(sorted, e) ==
    IF sorted = << >> THEN <<e>>
    ELSE IF cmp_fs_elements(e, Head(sorted)) THEN <<e>> \o sorted
    ELSE <<Head(sorted)>> \o InsertSorted(Tail(sorted), e)

RECURSIVE SortFrom(_, _, _)
SortFrom(elements, k, acc) ==
    IF k > Len(elements) THEN acc
    ELSE SortFrom(elements, k + 1, InsertSorted(acc, elements[k]))

\* the elements in the order list() returned them
NoSort(elements) == elements

\* elements.sort_unstable_by(cmp_fs_elements)
SortByName(elements) == SortFrom(elements, 1, << >>)

-----------------------------------------------------------------------------
(* mapped_fs.rs *)

Parsed(tag, root_element, extension) ==
    [tag |-> tag, root_element |-> root_element, extension |-> extension]

\* parse_path without its last arm: no component is illegal
ParseArmNoCheck(s, c, first_component, parsed_path) ==
    IF c.kind = "Normal" /\ parsed_path.tag = "Root"
    THEN Parsed("Extended", c.name, AsPath(s, c.next))
    ELSE parsed_path

\* the match arm of parse_path for one component: the new parsed_path, or
\* an "Err" when the component is illegal
ParseArm(s, c, first_component, parsed_path) ==
    IF c.kind \in {"Prefix", "CurDir"} /\ first_component THEN parsed_path
    ELSE IF c.kind = "RootDir" THEN parsed_path
    ELSE IF c.kind = "Normal" /\ parsed_path.tag = "Root"
         THEN Parsed("Extended", c.name, AsPath(s, c.next))
    ELSE IF c.kind = "Normal" THEN parsed_path
    ELSE Parsed("Err", None, None)

RECURSIVE ParseLoop(_, _, _, _)
ParseLoop(s, cs, k, parsed_path) ==
    IF k > Len(cs) THEN parsed_path
    ELSE LET next == ParseArm(s, cs[k], k = 1, parsed_path)
         IN  IF next.tag = "Err" THEN next ELSE ParseLoop(s, cs, k + 1, next)

parse_path(path) == ParseLoop(path, Components(path), 1, Parsed("Root", None, None))

Entry(name, path) == [name |-> name, path |-> path]

Occupied(m, name) == \E e \in m : e.name = name

\* map.get(name), for an occupied name
Get(m, name) == (CHOOSE e \in m : e.name = name).path

\* the numbered name without the space before the bracket
NameWithNumberNoSpace(name_in_path, number) ==
    IF number = 0 THEN name_in_path
    ELSE name_in_path \o "(" \o ToDecimal(number) \o ")"

\* the name add() tries with the counter at number
NameWithNumber(name_in_path, number) ==
    IF number = 0 THEN name_in_path
    ELSE name_in_path \o " (" \o ToDecimal(number) \o ")"

\* the match without its first arm: an occupied name is never the path's own
AddArmNoEq(m, path, name, number) ==
    IF Occupied(m, name) THEN "next" ELSE "insert"

\* the match on map.entry(name) in add(): "break", "next" or "insert"
AddArm(m, path, name, number) ==
    IF Occupied(m, name) /\ PathEq(Get(m, name), path) THEN "break"
    ELSE IF Occupied(m, name) THEN "next"
    ELSE "insert"

RECURSIVE AddLoop(_, _, _, _)
\* the loop of add().  The counter stays at or below the number of entries,
\* so the assert on u32::MAX cannot fail for a table of fewer than 2^32 entries
AddLoop(m, path, name_in_path, number) ==
    LET name == NameWithNumber(name_in_path, number)
        arm  == AddArm(m, path, name, number)
    IN  IF arm = "break" THEN m
        ELSE IF arm = "next" THEN AddLoop(m, path, name_in_path, number + 1)
        ELSE m \cup { Entry(name, path) }

Outcome(tag, value, newMap) == [tag |-> tag, value |-> value, map |-> newMap]

\* MappedFS::add
add(m, path) ==
    IF ~IsAbsolute(path) THEN Outcome("PathNotAbsolute", None, m)
    ELSE IF FileName(path) = None THEN Outcome("Panic", None, m)
    ELSE Outcome("Ok", None, AddLoop(m, path, FileName(path), 0))

\* retain() comparing the paths as text
remove_textual(m, path) == { e \in m : e.path # path }

\* MappedFS::remove
remove(m, path) == { e \in m : ~PathEq(e.path, path) }

\* MappedFS::registered
registered(m) == { e.path : e \in m }

\* MappedFS::unmap
unmap(m, path) ==
    LET parsed == parse_path(path)
    IN  IF parsed.tag = "Err" THEN Outcome("PathNotFound", None, m)
        ELSE IF parsed.tag = "Root" THEN Outcome("PathNotFound", None, m)
        ELSE IF ~Occupied(m, parsed.root_element) THEN Outcome("PathNotFound", None, m)
        ELSE Outcome("Ok", Join(Get(m, parsed.root_element), parsed.extension), m)

Listing(tag, elems, used) == [tag |-> tag, elems |-> elems, used |-> used]

\* the results of awaiting the spawned get_element calls for the (name, path)
\* pairs: a failed fetch adds nothing; the pairs come in the order the
\* HashMap or the host yields them
Fetched(pairs) ==
    LET ok == { q \in pairs : HostHas(q.path) }
    IN  { [i \in 1..Len(order) |-> FSElement(order[i].name, HostEntry(order[i].path))]
            : order \in Perms(ok) }

\* MappedFS::list: every outcome the call can have
list(m, path) ==
    LET parsed == parse_path(path)
    IN  IF parsed.tag = "Err" THEN { Listing("PathNotFound", << >>, None) }
        ELSE IF parsed.tag = "Root"
             THEN { Listing("Ok", elems, None) : elems \in Fetched(m) }
        ELSE IF ~Occupied(m, parsed.root_element)
             THEN { Listing("PathNotFound", << >>, None) }
        ELSE LET real == Join(Get(m, parsed.root_element), parsed.extension)
             IN  IF ~HostIsDir(real) THEN { Listing("PathNotFound", << >>, real) }
                 ELSE { Listing("Ok", elems, real) :
                          elems \in Fetched({ Entry(n, Join(real, n)) : n \in HostChildren(real) }) }

-----------------------------------------------------------------------------
(* browser.rs *)

\* Option<Vec<FSElement>>
NoState == << >>
Some(elements) == <<elements>>

Cursor(path, state) == [path |-> path, state |-> state]

Live(cs, id) == id \in DOMAIN cs

Insert(cs, id, cursor) ==
    [i \in DOMAIN cs \cup {id} |-> IF i = id THEN cursor ELSE cs[i]]

Without(cs, id) == [i \in DOMAIN cs \ {id} |-> cs[i]]

Result(tag, value, cs) == [tag |-> tag, value |-> value, cursors |-> cs]

\* the limit test with > for >=
create_cursor_off_by_one(cs, id) ==
    IF Cardinality(DOMAIN cs) > CursorLimit THEN Result("CursorLimitReached", NoId, cs)
    ELSE IF Live(cs, id) THEN Result("Retry", NoId, cs)
    ELSE Result("Ok", id, Insert(cs, id, Cursor("", NoState)))

\* the insert without the test for a vacant entry
create_cursor_overwriting(cs, id) ==
    IF Cardinality(DOMAIN cs) >= CursorLimit THEN Result("CursorLimitReached", NoId, cs)
    ELSE Result("Ok", id, Insert(cs, id, Cursor("", NoState)))

\* Browser::create_cursor with id the sample drawn: "Retry" is another turn
\* of the loop
create_cursor(cs, id) ==
    IF Cardinality(DOMAIN cs) >= CursorLimit THEN Result("CursorLimitReached", NoId, cs)
    ELSE IF Live(cs, id) THEN Result("Retry", NoId, cs)
    ELSE Result("Ok", id, Insert(cs, id, Cursor("", NoState)))

\* remove(&id) with its result dropped
destroy_cursor_lenient(cs, id) ==
    IF Live(cs, id) THEN Result("Ok", None, Without(cs, id)) ELSE Result("Ok", None, cs)

\* Browser::destroy_cursor
destroy_cursor(cs, id) ==
    IF Live(cs, id) THEN Result("Ok", None, Without(cs, id))
    ELSE Result("UnknownCursor", None, cs)

\* the lookup answering with a new PathBuf
get_location_cursor_fresh(cs, id) ==
    IF Live(cs, id) THEN Result("Ok", "", cs)
    ELSE Result("UnknownCursor", None, cs)

\* Browser::get_location_cursor
get_location_cursor(cs, id) ==
    IF Live(cs, id) THEN Result("Ok", cs[id].path, cs)
    ELSE Result("UnknownCursor", None, cs)

\* the move that forgets to drop the cache
move_cursor_keeps_state(cs, id, path) ==
    IF ~Live(cs, id) THEN Result("UnknownCursor", None, cs)
    ELSE IF ~PathEq(cs[id].path, path)
         THEN Result("Ok", None, [cs EXCEPT ![id] = Cursor(path, cs[id].state)])
    ELSE Result("Ok", None, cs)

\* the move without the comparison of the paths
move_cursor_always(cs, id, path) ==
    IF ~Live(cs, id) THEN Result("UnknownCursor", None, cs)
    ELSE Result("Ok", None, [cs EXCEPT ![id] = Cursor(path, NoState)])

\* the move refusing a path that parse_path refuses
move_cursor_validating(cs, id, path) ==
    IF ~Live(cs, id) THEN Result("UnknownCursor", None, cs)
    ELSE IF parse_path(path).tag = "Err" THEN Result("ReadError", path, cs)
    ELSE IF ~PathEq(cs[id].path, path)
         THEN Result("Ok", None, [cs EXCEPT ![id] = Cursor(path, NoState)])
    ELSE Result("Ok", None, cs)

\* Browser::move_cursor
move_cursor(cs, id, path) ==
    IF ~Live(cs, id) THEN Result("UnknownCursor", None, cs)
    ELSE IF ~PathEq(cs[id].path, path)
         THEN Result("Ok", None, [cs EXCEPT ![id] = Cursor(path, NoState)])
    ELSE Result("Ok", None, cs)

\* the read that drops the cache when list() fails
read_cursor_clearing(cs, id, out) ==
    IF out.tag # "Ok"
    THEN Result("ReadError", cs[id].path, [cs EXCEPT ![id] = Cursor(cs[id].path, NoState)])
    ELSE Result("Ok", None,
                [cs EXCEPT ![id] = Cursor(cs[id].path, Some(SortByName(out.elems)))])

\* Browser::read_cursor on a live cursor, given what list() returned
read_cursor(cs, id, out) ==
    IF out.tag # "Ok" THEN Result("ReadError", cs[id].path, cs)
    ELSE Result("Ok", None,
                [cs EXCEPT ![id] = Cursor(cs[id].path, Some(SortByName(out.elems)))])

-----------------------------------------------------------------------------
(* Inputs *)

\* the real paths handed to add() and remove(): colliding final components,
\* a final component that looks like a numbered name, one path spelt two
\* ways, a relative path and paths without a final component
RealPaths ==
    { "/a/b/foo.txt", "/c/d/foo.txt", "/e/foo.txt (1)", "/tmp/demo", "/tmp/demo/",
      "/x", "foo.txt", "/", "/x/.." }

\* the virtual paths handed to unmap() and list(): every string of at most
\* MaxPathLen characters over "/", "." and "x", and some longer ones
VPaths ==
    StrsUpTo({"/", ".", "x"}, MaxPathLen)
      \cup { "demo", "/demo/", "demo/a.txt", "demo/./b.txt//", "demo/../x", "../demo",
             "foo.txt", "foo.txt (1)", "foo.txt (1)/..", "./foo.txt/x", "nope" }

-----------------------------------------------------------------------------
(* State *)

\* stands for "no connection"
NoConn == 0

\* a list() call: pc: where it stands; path: its argument; handles: the
\* spawned get_element tasks in the order of the iterator, each running,
\* ok or failed; next: the handle the loop of line 250 awaits; output: the
\* elements pushed; tag, used: its result and the real path it read;
\* pairs: the (name, path) pairs the root branch has copied out of the
\* table so far; snapshot: history, the table as it was when the call took
\* the lock
Call(pc, path, handles, next, output, tag, used) ==
    [pc |-> pc, path |-> path, handles |-> handles, next |-> next,
     output |-> output, tag |-> tag, used |-> used,
     pairs |-> << >>, snapshot |-> {}]

\* no list() call in progress
NoCall == Call("idle", None, << >>, 1, << >>, None, None)

\* the lock free: no reader, no writer
Unlocked == [readers |-> {}, writer |-> None]

\* the operator's thread between two commands
NoCli == [pc |-> "idle", kind |-> None, path |-> None]

\* no request on the wire.  pc: where make_request or the loop of
\* handle_socket stands; request: the value handed to make_request, its
\* path the bytes of the PathBuf; data: what to_vec gave; stream: the bytes
\* written to the socket and not yet read; want: the length read_u16
\* returned; slice: the bytes read_exact filled in; decoded: what
\* from_slice gave; cause: why the exchange failed
NoWire ==
    [pc |-> "idle", request |-> [kind |-> None, id |-> NoId, path |-> << >>],
     data |-> << >>, stream |-> << >>, want |-> 0, slice |-> << >>,
     decoded |-> [kind |-> None, id |-> NoId, path |-> << >>], cause |-> None]

\* main() before the interrupt, the accept task before bind, nothing sent
\* on the watch channel
ServerStart == [main |-> "select", accept |-> "bind", signal |-> FALSE]

\* kind, id, path: the call; result, value, elems: what it returned;
\* listed: the path the browser handed to list(), used: the real path
\* list() handed to the host, raw: the set of elements list() returned;
\* mapped: the real path was in the table before the call; cached: the
\* cursor held a cache before the call; conn: the connection that served it
Op(kind, id, path, result, value) ==
    [kind |-> kind, id |-> id, path |-> path, result |-> result, value |-> value,
     elems |-> << >>, listed |-> None, used |-> None, raw |-> {},
     mapped |-> FALSE, cached |-> FALSE, conn |-> NoConn]

\* some entry stores the real path p
Mapped(m, p) == \E e \in m : PathEq(e.path, p)

\* MappedFS::new, Browser::new
Init ==
    /\ map = {}
    /\ cursors = << >>
    /\ lastOp = Op("Init", NoId, None, None, None)
    /\ conns = << >>
    /\ server = ServerStart
    /\ call = NoCall
    /\ lock = Unlocked
    /\ cli = NoCli
    /\ sampling = FALSE
    /\ wire = NoWire

-----------------------------------------------------------------------------
(* The operations of the namespace *)

Add(p) ==
    LET out == add(map, p)
    IN  /\ Cardinality(out.map) <= MaxEntries
        /\ map' = out.map
        /\ lastOp' = [Op("Add", NoId, p, out.tag, None) EXCEPT !.mapped = Mapped(map, p)]
        /\ UNCHANGED <<cursors, tasks>>

Remove(p) ==
    /\ map' = remove(map, p)
    /\ lastOp' = [Op("Remove", NoId, p, "Ok", None) EXCEPT !.mapped = Mapped(map, p)]
    /\ UNCHANGED <<cursors, tasks>>

Unmap(v) ==
    LET out == unmap(map, v)
    IN  /\ map' = out.map
        /\ lastOp' = Op("Unmap", NoId, v, out.tag, out.value)
        /\ UNCHANGED <<cursors, tasks>>

List(v) ==
    \E out \in list(map, v) :
        /\ lastOp' = [Op("List", NoId, v, out.tag, None)
                        EXCEPT !.elems = out.elems, !.used = out.used,
                               !.raw = Range(out.elems)]
        /\ UNCHANGED <<map, cursors, tasks>>

-----------------------------------------------------------------------------
(* The operations of the browser *)

\* the cursor ids the generator draws and the clients name
Ids == {0, 1, 2}

\* the paths a client moves a cursor to
MovePaths == { "", "demo", "demo/", "demo/.." }

\* the real paths the operator adds and removes while clients browse
MountPaths == { "/tmp/demo" }

HadCache(id) == Live(cursors, id) /\ cursors[id].state # NoState

Create ==
    \E id \in Ids :
        LET out == create_cursor(cursors, id)
        IN  /\ out.tag # "Retry"
            /\ cursors' = out.cursors
            /\ lastOp' = Op("Create", out.value, None, out.tag, None)
            /\ UNCHANGED <<map, tasks>>

Destroy(id) ==
    LET out == destroy_cursor(cursors, id)
    IN  /\ cursors' = out.cursors
        /\ lastOp' = [Op("Destroy", id, None, out.tag, None) EXCEPT !.cached = HadCache(id)]
        /\ UNCHANGED <<map, tasks>>

Read(id) ==
    IF ~Live(cursors, id)
    THEN /\ lastOp' = Op("Read", id, None, "UnknownCursor", None)
         /\ UNCHANGED <<map, cursors, tasks>>
    ELSE \E listing \in list(map, cursors[id].path) :
            LET out == read_cursor(cursors, id, listing)
            IN  /\ cursors' = out.cursors
                /\ lastOp' = [Op("Read", id, None, out.tag, out.value)
                                EXCEPT !.elems = IF out.tag = "Ok"
                                                 THEN out.cursors[id].state[1] ELSE << >>,
                                       !.listed = cursors[id].path,
                                       !.used = listing.used,
                                       !.raw = Range(listing.elems),
                                       !.cached = HadCache(id)]
                /\ UNCHANGED <<map, tasks>>

GetLocation(id) ==
    LET out == get_location_cursor(cursors, id)
    IN  /\ cursors' = out.cursors
        /\ lastOp' = [Op("GetLocation", id, None, out.tag, out.value)
                        EXCEPT !.cached = HadCache(id)]
        /\ UNCHANGED <<map, tasks>>

Move(id, path) ==
    LET out == move_cursor(cursors, id, path)
    IN  /\ cursors' = out.cursors
        /\ lastOp' = [Op("Move", id, path, out.tag, None) EXCEPT !.cached = HadCache(id)]
        /\ UNCHANGED <<map, tasks>>

Next ==
    \/ Create
    \/ \E id \in Ids : Destroy(id)
    \/ \E id \in Ids : Read(id)
    \/ \E id \in Ids : GetLocation(id)
    \/ \E id \in Ids, path \in MovePaths : Move(id, path)
    \/ \E p \in MountPaths : Add(p)
    \/ \E p \in MountPaths : Remove(p)

\* one browser over the namespace, the operator adding and removing
Spec == Init /\ [][Next]_vars

NextAdd == \E p \in RealPaths : Add(p)

\* the namespace filled by add() only
SpecAdd == Init /\ [][NextAdd]_vars

NextFS ==
    \/ \E p \in RealPaths : Add(p)
    \/ \E p \in RealPaths : Remove(p)

\* the namespace under add() and remove()
SpecFS == Init /\ [][NextFS]_vars

RECURSIVE AddAll(_, _)
\* the table after add() of each path of the sequence, in order
AddAll(m, paths) ==
    IF paths = << >> THEN m ELSE AddAll(add(m, Head(paths)).map, Tail(paths))

\* tables the resolution of a virtual path is tried on
SampleTables ==
    { AddAll({}, adds) :
        adds \in { << >>,
                   <<"/x">>,
                   <<"/x", "/tmp/demo/">>,
                   <<"/a/b/foo.txt", "/c/d/foo.txt", "/tmp/demo">> } }

\* a table and a virtual path, the call not yet made
InitResolve ==
    /\ map \in SampleTables
    /\ cursors = << >>
    /\ lastOp \in { Op("Init", NoId, v, None, None) : v \in VPaths }
    /\ conns = << >>
    /\ server = ServerStart
    /\ call = NoCall
    /\ lock = Unlocked
    /\ cli = NoCli
    /\ sampling = FALSE
    /\ wire = NoWire

NextResolve ==
    \/ lastOp.kind = "Init" /\ Unmap(lastOp.path)
    \/ lastOp.kind = "Init" /\ List(lastOp.path)

\* unmap() and list() as functions of the table and the virtual path
SpecResolve == InitResolve /\ [][NextResolve]_vars

-----------------------------------------------------------------------------
(* Vocabulary of the properties: a path read as text *)

RECURSIVE Segments(_)
\* the pieces of s between its "/" characters
Segments(s) ==
    LET j == NextSep(s, 1)
    IN  IF j > Len(s) THEN <<s>>
        ELSE <<SubSeq(s, 1, j - 1)>> \o Segments(SubSeq(s, j + 1, Len(s)))

IsName(t) == t \notin {"", ".", ".."}

\* s has a ".." component
HasDotDot(s) == \E i \in DOMAIN Segments(s) : Segments(s)[i] = ".."

\* the normal components of s, in order
NormalSegs(s) == SelectSeq(Segments(s), IsName)

Normal(name) == [kind |-> "Normal", name |-> name]

-----------------------------------------------------------------------------
(* C1..C2: resolution of virtual paths *)

\* the real path the last call resolved its virtual path to, None if none
RealUsed ==
    IF lastOp.kind = "Unmap" /\ lastOp.result = "Ok" THEN lastOp.value
    ELSE IF lastOp.kind = "List" THEN lastOp.used
    ELSE None

\* C1: whenever unmap succeeds or list reaches the host's directory read,
\* the real path used is the stored real path of the entry named by the
\* first normal component of the virtual path, followed by exactly the
\* remaining normal components of the virtual path and nothing else.
C1_Containment ==
    RealUsed # None =>
        LET names == NormalSegs(lastOp.path)
        IN  /\ names # << >>
            /\ Occupied(map, names[1])
            /\ PlainComponents(RealUsed)
                 = PlainComponents(Get(map, names[1]))
                     \o [i \in 1..(Len(names) - 1) |-> Normal(names[i + 1])]

\* list reached the host with a path that goes below the mapped entry
C1_Witness ==
    /\ lastOp.kind = "List"
    /\ lastOp.used # None
    /\ Len(NormalSegs(lastOp.path)) >= 2
    /\ Len(Segments(lastOp.path)) > Len(NormalSegs(lastOp.path))

\* the cases in which the claim says resolution fails
C2_MustFail(m, v) ==
    \/ HasDotDot(v)
    \/ NormalSegs(v) = << >>
    \/ ~Occupied(m, NormalSegs(v)[1])

C2_Exactly ==
    lastOp.kind = "Unmap" =>
        /\ lastOp.result \in {"Ok", "PathNotFound"}
        /\ lastOp.result = "PathNotFound" <=> C2_MustFail(map, lastOp.path)

\* C2: unmap fails with PathNotFound exactly when the virtual path has a
\* ".." component, has no normal component, or its first normal component
\* is not a display name of the table; otherwise it succeeds; a failing
\* unmap leaves the table as it was.
C2_ResolveFailsExactly ==
    /\ []C2_Exactly
    /\ [][(lastOp'.kind = "Unmap" /\ lastOp'.result = "PathNotFound") => map' = map]_vars

\* a ".." below a mapped entry was refused
C2_Witness ==
    /\ lastOp.kind = "Unmap"
    /\ lastOp.result = "PathNotFound"
    /\ HasDotDot(lastOp.path)
    /\ NormalSegs(lastOp.path) # << >>
    /\ Occupied(map, NormalSegs(lastOp.path)[1])

-----------------------------------------------------------------------------
(* C3..C7: the browser *)

\* the elements are in ascending order of name
Ascending(elements) ==
    \A i \in 1..(Len(elements) - 1) : StrLess(elements[i].name, elements[i + 1].name)

\* the step is a successful Read(id) that stored what it returned
C3_StoredByRead(id) ==
    /\ lastOp'.kind = "Read"
    /\ lastOp'.id = id
    /\ lastOp'.result = "Ok"
    /\ Live(cursors, id)
    /\ cursors'[id].path = cursors[id].path
    /\ lastOp'.listed = cursors[id].path
    /\ cursors'[id].state = Some(lastOp'.elems)
    /\ Ascending(lastOp'.elems)
    /\ Range(lastOp'.elems) = lastOp'.raw

\* a cache in the new state was stored by this step's Read at the cursor's
\* path, or the cursor is as it was
C3_CacheStep ==
    \A id \in DOMAIN cursors' :
        cursors'[id].state # NoState =>
            \/ C3_StoredByRead(id)
            \/ Live(cursors, id) /\ cursors'[id] = cursors[id]

C3_MoveClears ==
    (/\ lastOp'.kind = "Move"
     /\ Live(cursors, lastOp'.id)
     /\ ~PathEq(cursors[lastOp'.id].path, lastOp'.path))
        => cursors'[lastOp'.id] = Cursor(lastOp'.path, NoState)

\* C3: a cursor's cache is only ever put there by a successful Read at the
\* cursor's path, as that Read's sorted result, and it lasts only while the
\* cursor stays as it is; a Move of a live cursor to another path leaves the
\* cursor at that path without a cache, whether or not the path is valid.
C3_CacheInvariant == [][C3_CacheStep /\ C3_MoveClears]_vars

\* a cursor with a cache was moved to a path that cannot be read
C3_Witness ==
    /\ lastOp.kind = "Move"
    /\ lastOp.result = "Ok"
    /\ lastOp.cached
    /\ lastOp.path = "demo/.."
    /\ cursors[lastOp.id] = Cursor("demo/..", NoState)

\* C4: Move of a live cursor to the path it is at succeeds and changes no
\* cursor: not its path, not its cache, not another cursor.
C4_MoveSamePath ==
    [][(/\ lastOp'.kind = "Move"
        /\ Live(cursors, lastOp'.id)
        /\ PathEq(cursors[lastOp'.id].path, lastOp'.path))
          => (lastOp'.result = "Ok" /\ cursors' = cursors /\ map' = map)]_vars

\* a cursor with a cache was moved to its own path, spelt another way,
\* another cursor being live
C4_Witness ==
    /\ lastOp.kind = "Move"
    /\ lastOp.result = "Ok"
    /\ lastOp.cached
    /\ PathEq(cursors[lastOp.id].path, lastOp.path)
    /\ cursors[lastOp.id].path # lastOp.path
    /\ cursors[lastOp.id].state # NoState
    /\ Cardinality(DOMAIN cursors) = 2

C5_AtMostLimit == Cardinality(DOMAIN cursors) <= CursorLimit

C5_CreateStep ==
    lastOp'.kind = "Create" =>
        /\ lastOp'.result \in {"Ok", "CursorLimitReached"}
        /\ lastOp'.result = "CursorLimitReached"
             <=> Cardinality(DOMAIN cursors) = CursorLimit
        /\ lastOp'.result = "CursorLimitReached" => (cursors' = cursors /\ map' = map)
        /\ (lastOp.kind = "Destroy" /\ lastOp.result = "Ok") => lastOp'.result = "Ok"

\* C5: Create fails with CursorLimitReached exactly when the number of live
\* cursors equals the limit, and then changes nothing; the number of live
\* cursors never exceeds the limit; a Create that follows a successful
\* Destroy succeeds.
C5_CursorLimit ==
    /\ []C5_AtMostLimit
    /\ [][C5_CreateStep]_vars

\* Create was refused with the table full
C5_Witness ==
    /\ lastOp.kind = "Create"
    /\ lastOp.result = "CursorLimitReached"
    /\ Cardinality(DOMAIN cursors) = CursorLimit

C6_UnknownStep ==
    (lastOp'.kind \in {"Destroy", "Move", "Read", "GetLocation"} /\ ~Live(cursors, lastOp'.id))
        => /\ lastOp'.result = "UnknownCursor"
           /\ cursors' = cursors
           /\ lastOp'.listed = None

C6_DestroyStep ==
    (lastOp'.kind = "Destroy" /\ lastOp'.result = "Ok") => ~Live(cursors', lastOp'.id)

C6_LiveOnlyByCreate ==
    \A id \in DOMAIN cursors' :
        ~Live(cursors, id) => (lastOp'.kind = "Create" /\ lastOp'.result = "Ok" /\ lastOp'.id = id)

\* C6: Destroy, Move, Read and GetLocation of an id that is not live fail
\* with UnknownCursor, change no cursor and do not call the namespace; a
\* successful Destroy leaves the id not live, and an id becomes live only by
\* a Create that returns it.
C6_UnknownCursor == [][C6_UnknownStep /\ C6_DestroyStep /\ C6_LiveOnlyByCreate]_vars

\* a Read named an id that is not live while another cursor was
C6_Witness ==
    /\ lastOp.kind = "Read"
    /\ lastOp.result = "UnknownCursor"
    /\ DOMAIN cursors # {}

\* the elements the namespace has at virtual path v: one per entry of the
\* table, or one per entry of the directory, whose metadata the host gives
C7_Listing(m, v) ==
    LET names == NormalSegs(v)
    IN  IF names = << >>
        THEN { FSElement(e.name, HostEntry(e.path)) : e \in { q \in m : HostHas(q.path) } }
        ELSE LET dir == Join(Get(m, names[1]), "")
             IN  { FSElement(n, HostEntry(dir \o n)) :
                     n \in { c \in HostChildren(dir) : HostHas(dir \o c) } }

\* the listings of the example: /tmp/demo mounted, holding b.txt and a.txt
C7_Example(path, got) ==
    Mapped(map, "/tmp/demo") =>
        /\ path = "" => got = << [name |-> "demo", is_file |-> FALSE, size |-> 0] >>
        /\ path = "demo" => got = << [name |-> "a.txt", is_file |-> TRUE, size |-> 1],
                                     [name |-> "b.txt", is_file |-> TRUE, size |-> 2] >>

\* C7: a successful Read returns the namespace's listing of the cursor's
\* path in ascending order of name, and the cursor's cache is that same
\* list; at the root it lists the mapped entries, at a mapped directory the
\* directory's entries.
C7_ReadSorted ==
    (lastOp.kind = "Read" /\ lastOp.result = "Ok") =>
        LET c == cursors[lastOp.id]
        IN  /\ c.state = Some(lastOp.elems)
            /\ lastOp.listed = c.path
            /\ Ascending(lastOp.elems)
            /\ Len(lastOp.elems) = Cardinality(Range(lastOp.elems))
            /\ Range(lastOp.elems) = C7_Listing(map, c.path)
            /\ C7_Example(c.path, lastOp.elems)

\* the directory of the example was read
C7_Witness ==
    /\ lastOp.kind = "Read"
    /\ lastOp.result = "Ok"
    /\ cursors[lastOp.id].path = "demo"
    /\ Len(lastOp.elems) = 2

-----------------------------------------------------------------------------
(* C8..C10: the name table *)

NamesDistinct == \A e1, e2 \in map : e1.name = e2.name => e1 = e2

\* the step is an add() of a real path the table already stores
ReAdd == lastOp'.kind = "Add" /\ Mapped(map, lastOp'.path)

\* C8: under add() alone, from the empty table, display names are pairwise
\* distinct, and add() of a real path an earlier add() mapped changes
\* neither the number of entries nor any entry.
C8_AddOnly ==
    /\ []NamesDistinct
    /\ [][ReAdd => map' = map]_vars

\* a mapped path was added again, with other entries in the table
C8_Witness ==
    /\ lastOp.kind = "Add"
    /\ lastOp.result = "Ok"
    /\ lastOp.mapped
    /\ Cardinality(map) >= 2

NoPathUnderTwoNames ==
    \A e1, e2 \in map : PathEq(e1.path, e2.path) => e1.name = e2.name

\* C9: in every state add() and remove() can reach, add() of a real path
\* that is mapped leaves the table unchanged, and no real path is stored
\* under two display names.
C9_ReAddIsNoOp ==
    /\ []NoPathUnderTwoNames
    /\ [][ReAdd => map' = map]_vars

\* the claim's name for the path with the counter at k
C10_Name(base, k) == IF k = 0 THEN base ELSE base \o " (" \o ToDecimal(k) \o ")"

\* the name with counter k is free in m or holds the real path p
C10_Usable(m, p, k) ==
    LET name == C10_Name(NormalSegs(p)[Len(NormalSegs(p))], k)
    IN  ~Occupied(m, name) \/ PathEq(Get(m, name), p)

\* the smallest counter from lo on whose name is usable
C10_Smallest(m, p, lo) ==
    CHOOSE n \in lo..(Cardinality(m) + 1) :
        /\ C10_Usable(m, p, n)
        /\ \A k \in lo..(n - 1) : ~C10_Usable(m, p, k)

\* the table after add() has taken the name with counter n for p
C10_With(m, p, n) ==
    LET name == C10_Name(NormalSegs(p)[Len(NormalSegs(p))], n)
    IN  IF Occupied(m, name) THEN m ELSE m \cup { Entry(name, p) }

\* the pair of the example
C10_Example ==
    (map = { Entry("foo.txt", "/a/b/foo.txt") } /\ lastOp'.path = "/c/d/foo.txt")
        => map' = { Entry("foo.txt", "/a/b/foo.txt"), Entry("foo.txt (1)", "/c/d/foo.txt") }

\* C10 as stated: add() takes the final component when that name is free,
\* and otherwise the final component with " (N)" for the smallest N >= 1
\* whose name is free or maps the same real path.
C10_AsStated ==
    [][(lastOp'.kind = "Add" /\ lastOp'.result = "Ok") =>
          LET p    == lastOp'.path
              base == NormalSegs(p)[Len(NormalSegs(p))]
          IN  map' = IF ~Occupied(map, base) THEN map \cup { Entry(base, p) }
                     ELSE C10_With(map, p, C10_Smallest(map, p, 1))]_vars

\* C10, amended: add() takes the final component when that name is free or
\* maps the same real path, and otherwise the final component with " (N)"
\* for the smallest N >= 1 whose name is free or maps the same real path;
\* every other entry stays; /a/b/foo.txt then /c/d/foo.txt give foo.txt and
\* foo.txt (1).
C10_DisplayName ==
    [][(lastOp'.kind = "Add" /\ lastOp'.result = "Ok") =>
          /\ map' = C10_With(map, lastOp'.path, C10_Smallest(map, lastOp'.path, 0))
          /\ C10_Example]_vars

\* the second path of the example was added after the first
C10_Witness ==
    /\ lastOp.kind = "Add"
    /\ lastOp.path = "/c/d/foo.txt"
    /\ ~lastOp.mapped
    /\ map = { Entry("foo.txt", "/a/b/foo.txt"), Entry("foo.txt (1)", "/c/d/foo.txt") }

-----------------------------------------------------------------------------
(* C11..C12: add() and remove() as the operator calls them *)

C11_AddResult ==
    lastOp.kind = "Add" =>
        IF IsAbsolute(lastOp.path)
        THEN lastOp.result = "Ok" /\ Mapped(map, lastOp.path)
        ELSE lastOp.result = "PathNotAbsolute"

\* C11: add() fails only for a path that is not absolute, then with
\* PathNotAbsolute and the table as it was; for every absolute path, the
\* root and a path ending in ".." included, it returns Ok without
\* aborting and the path is then among registered().
C11_AddTotal ==
    /\ []C11_AddResult
    /\ [][(lastOp'.kind = "Add" /\ lastOp'.result # "Ok") => map' = map]_vars

C12_RemoveStep ==
    lastOp'.kind = "Remove" =>
        /\ lastOp'.result = "Ok"
        /\ ~Mapped(map', lastOp'.path)
        /\ lastOp'.path \notin registered(map')
        /\ map' \subseteq map
        /\ \A e \in map : ~PathEq(e.path, lastOp'.path) => e \in map'
        /\ ~Mapped(map, lastOp'.path) => map' = map

\* C12: remove(p) never fails; afterwards no entry stores the real path p,
\* every entry whose real path is another path is in the table with the
\* name and path it had, no entry is new, and when p was not mapped the
\* table is as it was.
C12_RemoveFrame == [][C12_RemoveStep]_vars

\* a mapped path was removed under another spelling, another entry staying
C12_Witness ==
    /\ lastOp.kind = "Remove"
    /\ lastOp.mapped
    /\ lastOp.path = "/tmp/demo/"
    /\ map # {}

-----------------------------------------------------------------------------
(* MappedFS::list step by step, called by Browser::read_cursor *)

\* tokio::spawn(get_element(name, path))
Handle(name, path) == [name |-> name, path |-> path, status |-> "running"]

\* the handles of the spawned fetches of the (name, path) pairs, in every
\* order the HashMap or read_dir can yield the pairs
Spawned(pairs) ==
    { [i \in 1..Len(order) |-> Handle(order[i].name, order[i].path)] : order \in Perms(pairs) }

\* handle.await returns whether or not the task has finished
JoinedEarly(handle) == TRUE

\* handle.await returns: the task has finished
Joined(handle) == handle.status # "running"

\* lines 251-253: the element is pushed if the fetch gave one
Collect(output, handle) ==
    IF handle.status = "ok"
    THEN Append(output, FSElement(handle.name, HostEntry(handle.path)))
    ELSE output

\* the virtual paths the cursor of the call stands at: spellings of the
\* root, mapped and unmapped names, a directory, a file, paths with ".."
ListPaths == { "", "/", ".", "./", "demo", "demo/", "foo.txt", "x", "nope", "demo/..", ".." }

\* read_cursor calls list(): lines 206-247, up to the spawning of the
\* fetches, or to the error
ListSpawn ==
    /\ call.pc = "idle"
    /\ Live(cursors, 0)
    /\ LET path   == cursors[0].path
           parsed == parse_path(path)
           real   == Join(Get(map, parsed.root_element), parsed.extension)
       IN  IF parsed.tag = "Err"
           THEN call' = Call("returned", path, << >>, 1, << >>, "PathNotFound", None)
           ELSE IF parsed.tag = "Root"
           THEN \E handles \in Spawned(map) :
                   call' = Call("joining", path, handles, 1, << >>, None, None)
           ELSE IF ~Occupied(map, parsed.root_element)
           THEN call' = Call("returned", path, << >>, 1, << >>, "PathNotFound", None)
           ELSE IF ~HostIsDir(real)
           THEN call' = Call("returned", path, << >>, 1, << >>, "PathNotFound", real)
           ELSE \E handles \in Spawned({ Entry(n, Join(real, n)) : n \in HostChildren(real) }) :
                   call' = Call("joining", path, handles, 1, << >>, None, real)
    /\ lastOp' = Op("ListSpawn", 0, cursors[0].path, None, None)
    /\ UNCHANGED <<map, cursors, conns, server, steps>>

\* get_element of handle k finishes: tokio::fs::metadata gave the
\* metadata or an error
FetchEnd(k) ==
    /\ call.pc = "joining"
    /\ k \in DOMAIN call.handles
    /\ call.handles[k].status = "running"
    /\ call' = [call EXCEPT !.handles[k].status =
                              IF HostHas(call.handles[k].path) THEN "ok" ELSE "failed"]
    /\ lastOp' = Op("FetchEnd", 0, call.handles[k].path, call'.handles[k].status, None)
    /\ UNCHANGED <<map, cursors, conns, server, steps>>

\* one turn of the loop of lines 250-254
AwaitHandle ==
    /\ call.pc = "joining"
    /\ call.next <= Len(call.handles)
    /\ Joined(call.handles[call.next])
    /\ call' = [call EXCEPT !.output = Collect(@, call.handles[call.next]),
                            !.next = @ + 1]
    /\ lastOp' = Op("Join", 0, call.handles[call.next].path, None, None)
    /\ UNCHANGED <<map, cursors, conns, server, steps>>

\* line 255: Ok(output)
ListReturn ==
    /\ call.pc = "joining"
    /\ call.next > Len(call.handles)
    /\ call' = [call EXCEPT !.pc = "returned", !.tag = "Ok"]
    /\ lastOp' = Op("ListReturn", 0, call.path, "Ok", None)
    /\ UNCHANGED <<map, cursors, conns, server, steps>>

\* read_cursor, lines 119-124, with what list() returned
ReadReturn ==
    /\ call.pc = "returned"
    /\ LET out == read_cursor(cursors, 0, Listing(call.tag, call.output, call.used))
       IN  /\ cursors' = out.cursors
           /\ lastOp' = [Op("Read", 0, None, out.tag, out.value)
                           EXCEPT !.elems = IF out.tag = "Ok"
                                            THEN out.cursors[0].state[1] ELSE << >>,
                                  !.listed = call.path,
                                  !.used = call.used,
                                  !.raw = Range(call.output)]
    /\ call' = [call EXCEPT !.pc = "done"]
    /\ UNCHANGED <<map, conns, server, steps>>

\* a table, and a cursor at a virtual path about to be read
InitList ==
    /\ map \in SampleTables
    /\ cursors \in { [id \in {0} |-> Cursor(path, NoState)] : path \in ListPaths }
    /\ lastOp = Op("Init", NoId, None, None, None)
    /\ conns = << >>
    /\ server = ServerStart
    /\ call = NoCall
    /\ lock = Unlocked
    /\ cli = NoCli
    /\ sampling = FALSE
    /\ wire = NoWire

NextList ==
    \/ ListSpawn
    \/ \E k \in 1..(MaxEntries + 1) : FetchEnd(k)
    \/ AwaitHandle
    \/ ListReturn
    \/ ReadReturn

\* one Read of a cursor, list() running as its tasks do
SpecList == InitList /\ [][NextList]_vars

-----------------------------------------------------------------------------
(* Browser::process and the connection handler of server.rs *)

\* most requests a connection is followed for
MaxRequests == 3
\* most connections the accept loop is followed for
MaxConns == 2

Request(kind, id, path) == [kind |-> kind, id |-> id, path |-> path]

Response(kind, tag, id, path, elems) ==
    [kind |-> kind, tag |-> tag, id |-> id, path |-> path, elems |-> elems]

NoRequest == Request(None, NoId, None)
NoResponse == Response(None, None, NoId, None, << >>)

Reply(response, cs) == [response |-> response, cursors |-> cs]

\* the match with the arm of Destroy answering as a Move
process_wrong_arm(cs, m, request) ==
    IF request.kind = "Create"
    THEN { Reply(Response("Create", out.tag, out.value, None, << >>), out.cursors) :
             out \in { r \in { create_cursor(cs, id) : id \in Ids } : r.tag # "Retry" } }
    ELSE IF request.kind = "Destroy"
    THEN LET out == destroy_cursor(cs, request.id)
         IN  { Reply(Response("Move", out.tag, NoId, None, << >>), out.cursors) }
    ELSE IF request.kind = "GetLocation"
    THEN LET out == get_location_cursor(cs, request.id)
         IN  { Reply(Response("GetLocation", out.tag, NoId, out.value, << >>), out.cursors) }
    ELSE IF request.kind = "Move"
    THEN LET out == move_cursor(cs, request.id, request.path)
         IN  { Reply(Response("Move", out.tag, NoId, None, << >>), out.cursors) }
    ELSE IF ~Live(cs, request.id)
    THEN { Reply(Response("Read", "UnknownCursor", NoId, None, << >>), cs) }
    ELSE { Reply(Response("Read", out.tag, NoId, out.value,
                          IF out.tag = "Ok" THEN out.cursors[request.id].state[1] ELSE << >>),
                 out.cursors) :
             out \in { read_cursor(cs, request.id, listing) :
                         listing \in list(m, cs[request.id].path) } }

\* Browser::process on the browser cs over the table m: every response the
\* call can give, with the browser it leaves
process(cs, m, request) ==
    IF request.kind = "Create"
    THEN { Reply(Response("Create", out.tag, out.value, None, << >>), out.cursors) :
             out \in { r \in { create_cursor(cs, id) : id \in Ids } : r.tag # "Retry" } }
    ELSE IF request.kind = "Destroy"
    THEN LET out == destroy_cursor(cs, request.id)
         IN  { Reply(Response("Destroy", out.tag, NoId, None, << >>), out.cursors) }
    ELSE IF request.kind = "GetLocation"
    THEN LET out == get_location_cursor(cs, request.id)
         IN  { Reply(Response("GetLocation", out.tag, NoId, out.value, << >>), out.cursors) }
    ELSE IF request.kind = "Move"
    THEN LET out == move_cursor(cs, request.id, request.path)
         IN  { Reply(Response("Move", out.tag, NoId, None, << >>), out.cursors) }
    ELSE IF ~Live(cs, request.id)
    THEN { Reply(Response("Read", "UnknownCursor", NoId, None, << >>), cs) }
    ELSE { Reply(Response("Read", out.tag, NoId, out.value,
                          IF out.tag = "Ok" THEN out.cursors[request.id].state[1] ELSE << >>),
                 out.cursors) :
             out \in { read_cursor(cs, request.id, listing) :
                         listing \in list(m, cs[request.id].path) } }

\* the lengths rmp_serde::to_vec can give the response.  A length counts
\* only by the side of u16::MAX it falls on.  A listing has at least one
\* byte for each element and the host decides how many elements a directory
\* has: the listing of the sample tree is short, that of a directory of
\* 65536 entries is not.
to_vec_len(response) ==
    IF response.kind = "Read" /\ response.tag = "Ok"
    THEN { Len(response.elems) + 1, U16Max + 1 }
    ELSE { 1 }

\* list(path) suspends: it reads a directory or awaits spawned fetches
ListAwaits(m, path) ==
    LET parsed == parse_path(path)
    IN  \/ parsed.tag = "Root" /\ m # {}
        \/ parsed.tag = "Extended" /\ Occupied(m, parsed.root_element)

\* the handler of a connection just spawned: Browser::new, nothing read
NewHandler ==
    [pc |-> "read_u16", request |-> NoRequest, response |-> NoResponse,
     browser |-> << >>, decoded |-> 0, written |-> 0, exit |-> None]

\* the handler task is over
Done(h) == h.pc = "done"

\* the handler returns or unwinds: the browser, the buffer and the stream
\* are dropped with the task
Ended(h, cause) ==
    [h EXCEPT !.pc = "done", !.exit = cause, !.request = NoRequest,
              !.response = NoResponse, !.browser = << >>]

\* the async block of the handler is suspended at an .await
Suspended(h, m) ==
    \/ h.pc \in {"read_u16", "read_exact", "write"}
    \/ /\ h.pc = "process"
       /\ h.request.kind = "Read"
       /\ Live(h.browser, h.request.id)
       /\ ListAwaits(m, h.browser[h.request.id].path)

\* the requests the client of the followed connection sends
HandlerRequests ==
    { Request("Create", NoId, None) }
      \cup { Request(k, 0, None) : k \in {"Destroy", "Read", "GetLocation"} }
      \cup { Request("Move", 0, path) : path \in {"demo", "demo/.."} }

Step(kind, c, result, value) == [Op(kind, NoId, None, result, value) EXCEPT !.conn = c]

\* read_u16 returns the length of a request frame
ReadLen(c) ==
    /\ c \in DOMAIN conns
    /\ conns[c].pc = "read_u16"
    /\ conns' = [conns EXCEPT ![c].pc = "read_exact"]
    /\ lastOp' = Step("ReadLen", c, None, None)
    /\ UNCHANGED <<map, cursors, server, call, steps>>

\* read_exact returns the frame and from_slice decodes it
ReadFrame(c, request) ==
    /\ c \in DOMAIN conns
    /\ conns[c].pc = "read_exact"
    /\ conns[c].decoded < MaxRequests
    /\ conns' = [conns EXCEPT ![c].pc = "process",
                              ![c].request = request,
                              ![c].decoded = @ + 1]
    /\ lastOp' = [Step("Decode", c, None, request.kind)
                    EXCEPT !.id = request.id, !.path = request.path]
    /\ UNCHANGED <<map, cursors, server, call, steps>>

\* from_slice fails: the frame is no Request
DecodeFail(c) ==
    /\ c \in DOMAIN conns
    /\ conns[c].pc = "read_exact"
    /\ conns' = [conns EXCEPT ![c] = Ended(@, "decode")]
    /\ lastOp' = Step("Exit", c, "decode", None)
    /\ UNCHANGED <<map, cursors, server, call, steps>>

\* a read, a write or the flush fails, the peer having gone or the
\* connection being reset
TransportFail(c) ==
    /\ c \in DOMAIN conns
    /\ conns[c].pc \in {"read_u16", "read_exact", "write"}
    /\ conns' = [conns EXCEPT ![c] = Ended(@, "transport")]
    /\ lastOp' = Step("Exit", c, "transport", None)
    /\ UNCHANGED <<map, cursors, server, call, steps>>

\* lines 41-44: browser.process, to_vec and the conversion of the length
\* to u16, whose unwrap panics for a length above u16::MAX
Process(c) ==
    /\ c \in DOMAIN conns
    /\ conns[c].pc = "process"
    /\ \E out \in process(conns[c].browser, map, conns[c].request) :
         \E len \in to_vec_len(out.response) :
            IF len > U16Max
            THEN /\ conns' = [conns EXCEPT ![c] = Ended(@, "panic")]
                 /\ lastOp' = Step("Exit", c, "panic", out.response.kind)
            ELSE /\ conns' = [conns EXCEPT ![c].pc = "write",
                                           ![c].response = out.response,
                                           ![c].browser = out.cursors]
                 /\ lastOp' = Step("Process", c, out.response.tag, out.response.kind)
    /\ UNCHANGED <<map, cursors, server, call, steps>>

\* lines 44-46: write_u16, write_all and flush put the response frame on
\* the connection; the loop goes back to read_u16
Write(c) ==
    /\ c \in DOMAIN conns
    /\ conns[c].pc = "write"
    /\ conns' = [conns EXCEPT ![c].pc = "read_u16",
                              ![c].request = NoRequest,
                              ![c].response = NoResponse,
                              ![c].written = @ + 1]
    /\ lastOp' = Step("Write", c, conns[c].response.tag, conns[c].response.kind)
    /\ UNCHANGED <<map, cursors, server, call, steps>>

\* the other branch of the handler's select: rx.changed() is ready while
\* the async block is suspended; the block is dropped where it stands
Cancel(c) ==
    /\ c \in DOMAIN conns
    /\ server.signal
    /\ Suspended(conns[c], map)
    /\ conns' = [conns EXCEPT ![c] = Ended(@, "shutdown")]
    /\ lastOp' = Step("Exit", c, "shutdown", conns[c].pc)
    /\ UNCHANGED <<map, cursors, server, call, steps>>

\* main, lines 89-94: ctrl_c or the end of the command loop, then
\* tx.send(false)
MainSend ==
    /\ server.main = "select"
    /\ server' = [server EXCEPT !.main = "closed", !.signal = TRUE]
    /\ lastOp' = Step("Send", NoConn, None, None)
    /\ UNCHANGED <<map, cursors, conns, call, steps>>

\* one connection accepted, its handler spawned, the table holding the
\* mounted directory
InitHandler ==
    /\ map = AddAll({}, <<"/tmp/demo">>)
    /\ cursors = << >>
    /\ lastOp = Op("Init", NoId, None, None, None)
    /\ conns = [c \in {1} |-> NewHandler]
    /\ server = [ServerStart EXCEPT !.accept = "accept"]
    /\ call = NoCall
    /\ lock = Unlocked
    /\ cli = NoCli
    /\ sampling = FALSE
    /\ wire = NoWire

NextHandler ==
    \/ ReadLen(1)
    \/ \E request \in HandlerRequests : ReadFrame(1, request)
    \/ DecodeFail(1)
    \/ TransportFail(1)
    \/ Process(1)
    \/ Write(1)
    \/ Cancel(1)
    \/ MainSend

\* one connection served by handle_socket, main sending the signal
SpecHandler == InitHandler /\ [][NextHandler]_vars

-----------------------------------------------------------------------------
(* main and the accept task of server.rs *)

\* the Receivers of the watch channel not yet dropped, counting only those
\* of the accept task
ReceiversOfAcceptTask(srv, cs) == IF srv.accept # "done" THEN 2 ELSE 0

\* the Receivers of the watch channel not yet dropped: rx and rx2 of the
\* accept task, and the clone of rx2 each handler holds
Receivers(srv, cs) ==
    (IF srv.accept # "done" THEN 2 ELSE 0)
      + Cardinality({ c \in DOMAIN cs : ~Done(cs[c]) })

\* TcpListener::bind returns: the listener, or an error the task returns
Bind ==
    /\ server.accept = "bind"
    /\ \E ok \in BOOLEAN :
         /\ server' = [server EXCEPT !.accept = IF ok THEN "accept" ELSE "done"]
         /\ lastOp' = Step("Bind", NoConn, (IF ok THEN "Ok" ELSE "Err"), None)
    /\ UNCHANGED <<map, cursors, conns, call, steps>>

\* listener.accept() returns a connection: its handler is spawned with a
\* clone of rx2
Accept ==
    /\ server.accept = "accept"
    /\ Cardinality(DOMAIN conns) < MaxConns
    /\ LET c == Cardinality(DOMAIN conns) + 1
       IN  /\ conns' = [d \in DOMAIN conns \cup {c} |->
                          IF d = c THEN NewHandler ELSE conns[d]]
           /\ lastOp' = Step("Accept", c, None, None)
    /\ UNCHANGED <<map, cursors, server, call, steps>>

\* the other branch of the accept task's select: rx.changed() is ready;
\* the task returns, the listener, rx and rx2 are dropped
AcceptStop ==
    /\ server.accept = "accept"
    /\ server.signal
    /\ server' = [server EXCEPT !.accept = "done"]
    /\ lastOp' = Step("AcceptStop", NoConn, None, None)
    /\ UNCHANGED <<map, cursors, conns, call, steps>>

\* main, lines 95-97: tx.closed() returns once every Receiver is dropped
MainReturn ==
    /\ server.main = "closed"
    /\ Receivers(server, conns) = 0
    /\ server' = [server EXCEPT !.main = "returned"]
    /\ lastOp' = Step("Return", NoConn, None, None)
    /\ UNCHANGED <<map, cursors, conns, call, steps>>

\* the request the clients of the cascade send, one each
ShutdownRequests == { Request("GetLocation", 0, None) }

NextShutdown ==
    \/ Bind
    \/ Accept
    \/ AcceptStop
    \/ MainSend
    \/ MainReturn
    \/ \E c \in 1..MaxConns : ReadLen(c)
    \/ \E c \in 1..MaxConns, request \in ShutdownRequests :
          /\ c \in DOMAIN conns
          /\ conns[c].decoded = 0
          /\ ReadFrame(c, request)
    \/ \E c \in 1..MaxConns : TransportFail(c)
    \/ \E c \in 1..MaxConns : Process(c)
    \/ \E c \in 1..MaxConns : Write(c)
    \/ \E c \in 1..MaxConns : Cancel(c)

\* the tasks are scheduled: bind returns, a handler that can go on without
\* waiting goes on, a task whose rx.changed() is ready when it is suspended
\* takes that branch, and tx.closed() returns
Fairness ==
    /\ WF_vars(Bind)
    /\ WF_vars(AcceptStop)
    /\ WF_vars(MainReturn)
    /\ \A c \in 1..MaxConns : WF_vars(Process(c)) /\ SF_vars(Cancel(c))

\* main, the accept task and the handlers it spawns
SpecShutdown == Init /\ [][NextShutdown]_vars /\ Fairness

-----------------------------------------------------------------------------
(* Two connections *)

\* every handler using the browser of the first
OwnerShared(c) == 1

\* the handler whose browser serves the requests of connection c: its own,
\* made by Browser::new inside handle_socket
Owner(c) == c

\* the requests the clients of two connections send
ConnRequests ==
    { Request("Create", NoId, None) }
      \cup { Request(k, id, None) : k \in {"Destroy", "Read", "GetLocation"}, id \in {0, 1} }
      \cup { Request("Move", id, "demo") : id \in {0, 1} }

\* one turn of the handler's loop without a failure: a request frame is
\* read and decoded, processed, and its response written
Serve(c, request) ==
    /\ c \in DOMAIN conns
    /\ conns[c].pc = "read_u16"
    /\ conns[c].decoded < MaxRequests
    /\ \E out \in process(conns[Owner(c)].browser, map, request) :
          /\ conns' = [[conns EXCEPT ![Owner(c)].browser = out.cursors]
                          EXCEPT ![c].decoded = @ + 1, ![c].written = @ + 1]
          /\ lastOp' = [Step(request.kind, c, out.response.tag, out.response.path)
                          EXCEPT !.id = IF request.kind = "Create"
                                        THEN out.response.id ELSE request.id,
                                 !.elems = out.response.elems]
    /\ UNCHANGED <<map, cursors, server, call, steps>>

\* two connections accepted, the table holding the mounted directory
InitConns ==
    /\ map = AddAll({}, <<"/tmp/demo">>)
    /\ cursors = << >>
    /\ lastOp = Op("Init", NoId, None, None, None)
    /\ conns = [c \in {1, 2} |-> NewHandler]
    /\ server = [ServerStart EXCEPT !.accept = "accept"]
    /\ call = NoCall
    /\ lock = Unlocked
    /\ cli = NoCli
    /\ sampling = FALSE
    /\ wire = NoWire

NextConns == \E c \in {1, 2}, request \in ConnRequests : Serve(c, request)

\* two connections served in any interleaving of their requests
SpecConns == InitConns /\ [][NextConns]_vars

-----------------------------------------------------------------------------
(* C13..C15: one connection *)

Kinds == {"Create", "Destroy", "Read", "GetLocation", "Move"}

\* the handler has read or is reading a request frame it has not decoded,
\* or is between a decoded request and the end of its response frame
C13_Counts ==
    \A c \in DOMAIN conns :
        LET h == conns[c]
        IN  /\ h.written <= h.decoded
            /\ h.decoded <= h.written + 1
            /\ h.pc \in {"read_u16", "read_exact"} => h.decoded = h.written
            /\ h.pc \in {"process", "write"} => h.decoded = h.written + 1

C13_Step ==
    \A c \in DOMAIN conns :
        /\ conns'[c].written # conns[c].written =>
              /\ conns'[c].written = conns[c].written + 1
              /\ conns[c].decoded = conns[c].written + 1
              /\ conns'[c].decoded = conns[c].decoded
              /\ lastOp'.kind = "Write"
              /\ lastOp'.value \in Kinds
              /\ lastOp'.value = conns[c].request.kind
        /\ conns'[c].decoded # conns[c].decoded =>
              /\ conns'[c].decoded = conns[c].decoded + 1
              /\ conns[c].decoded = conns[c].written
              /\ conns'[c].written = conns[c].written
              /\ lastOp'.kind = "Decode"

\* C13: on a connection the frames alternate: the handler has written one
\* response frame for every request it decoded, except the one it is
\* serving; it writes a response only for a decoded request that has none
\* yet, of the kind of that request, and decodes the next request only when
\* every decoded request has its response.
C13_Alternation ==
    /\ []C13_Counts
    /\ [][C13_Step]_vars

\* the second response of a connection was written, to a Read
C13_Witness ==
    /\ lastOp.kind = "Write"
    /\ lastOp.value = "Read"
    /\ conns[lastOp.conn].written = 2
    /\ conns[lastOp.conn].decoded = 2

C14_Step ==
    \A c \in DOMAIN conns :
        ~server.signal =>
            /\ (~Done(conns[c]) /\ Done(conns'[c])) =>
                  /\ conns'[c].exit \in {"transport", "decode"}
                  /\ conns[c].pc # "process"
            /\ (conns[c].pc = "process" /\ conns'[c] # conns[c]) =>
                  /\ conns'[c].pc = "write"
                  /\ conns'[c].response.kind = conns[c].request.kind
            /\ (conns[c].pc = "write" /\ conns'[c].pc # "write") =>
                  \/ conns'[c].pc = "read_u16"
                  \/ conns'[c].exit = "transport"

\* C14: while no signal has been sent, a handler ends only by a failure of
\* the transport or of the decoding; for every request that decodes,
\* whatever the browser returns and of whatever size, the handler goes on
\* to write the response and then to read the next request.
C14_OnlyTransportEnds == [][C14_Step]_vars

\* C15: a handler that has decoded a request and not yet written and
\* flushed the whole response is not ended by the signal: it ends there
\* only by a failure of the exchange itself.
C15_NoAbortMidExchange ==
    [][\A c \in DOMAIN conns :
          (conns[c].pc \in {"process", "write"} /\ Done(conns'[c]))
              => conns'[c].exit # "shutdown"]_vars

-----------------------------------------------------------------------------
(* C16: the shutdown cascade *)

\* the accept task and every handler spawned are over
AllStopped ==
    /\ server.accept = "done"
    /\ \A c \in DOMAIN conns : Done(conns[c])

C16_ReturnsLast == server.main = "returned" => AllStopped

\* C16 as stated: once the signal is sent the accept loop accepts no
\* further connection and eventually terminates, every handler eventually
\* exits, and main does not return before the accept task and all handlers
\* have dropped their Receivers.
C16_AsStated ==
    /\ [][server.signal => lastOp'.kind # "Accept"]_vars
    /\ server.signal ~> AllStopped
    /\ []C16_ReturnsLast

\* C16, amended: once the signal is sent the accept loop eventually
\* terminates and accepts no connection from then on; every handler, also
\* one spawned after the signal, eventually exits; main does not return
\* before the accept task and all handlers have dropped their Receivers.
C16_Cascade ==
    /\ [][server.accept = "done" => (lastOp'.kind # "Accept" /\ DOMAIN conns' = DOMAIN conns)]_vars
    /\ server.signal ~> AllStopped
    /\ []C16_ReturnsLast

\* main returned after two handlers, one of them in an exchange, were
\* ended by the signal
C16_Witness ==
    /\ server.main = "returned"
    /\ Cardinality(DOMAIN conns) >= 2
    /\ \A c \in DOMAIN conns : conns[c].exit = "shutdown"
    /\ \E c \in DOMAIN conns : conns[c].decoded = 1 /\ conns[c].written = 0

-----------------------------------------------------------------------------
(* C17: the cursors of two connections *)

\* the cursors of connection c
Browser(c) == conns[c].browser

C17_OwnLimit ==
    \A c \in DOMAIN conns : Cardinality(DOMAIN Browser(c)) <= CursorLimit

C17_Step ==
    \A c \in DOMAIN conns :
        lastOp'.conn = c =>
            /\ \A d \in DOMAIN conns \ {c} : conns'[d].browser = conns[d].browser
            /\ lastOp'.kind = "Create" =>
                  /\ lastOp'.result = "CursorLimitReached"
                       <=> Cardinality(DOMAIN Browser(c)) = CursorLimit
                  /\ lastOp'.result = "Ok" =>
                       DOMAIN conns'[c].browser = DOMAIN Browser(c) \cup {lastOp'.id}
            /\ lastOp'.kind \in {"Destroy", "Read", "GetLocation", "Move"} =>
                  (lastOp'.result = "UnknownCursor" <=> lastOp'.id \notin DOMAIN Browser(c))
            /\ lastOp'.kind # "Create" =>
                  DOMAIN conns'[c].browser \subseteq DOMAIN Browser(c)

\* C17: each connection has its own browser: a request on one connection
\* leaves every cursor of the other as it was, an id is live on a
\* connection only by a Create of that connection and is UnknownCursor
\* there otherwise, whatever is live on the other, and the limit of live
\* cursors counts the cursors of the connection alone.
C17_Isolation ==
    /\ []C17_OwnLimit
    /\ [][C17_Step]_vars

\* both connections hold as many cursors as the limit allows, and a
\* request on the second named an id live only on the first
C17_Witness ==
    /\ \A c \in DOMAIN conns : Cardinality(DOMAIN Browser(c)) = CursorLimit
    /\ lastOp.conn = 2
    /\ lastOp.kind = "GetLocation"
    /\ lastOp.result = "UnknownCursor"
    /\ lastOp.id \in DOMAIN Browser(1)

-----------------------------------------------------------------------------
(* C18: partial success of list() *)

\* the path names the root of the namespace
IsRoot(path) == NormalSegs(path) = << >> /\ ~HasDotDot(path)

\* the handles whose fetch has given an element
C18_Succeeded == { k \in DOMAIN call.handles : call.handles[k].status = "ok" }

C18_Returned ==
    call.pc \in {"returned", "done"} =>
        /\ call.tag \in {"Ok", "PathNotFound"}
        /\ call.tag = "Ok" =>
              /\ \A k \in DOMAIN call.handles :
                    /\ call.handles[k].status # "running"
                    /\ call.handles[k].status = "ok" <=> HostHas(call.handles[k].path)
              /\ Len(call.output) = Cardinality(C18_Succeeded)
              /\ Range(call.output) =
                    { FSElement(call.handles[k].name, HostEntry(call.handles[k].path)) :
                        k \in C18_Succeeded }
              /\ Listing("Ok", call.output, call.used) \in list(map, call.path)
        /\ call.tag = "PathNotFound" => call.handles = << >>
        /\ IsRoot(call.path) => call.tag = "Ok"

C18_ReadAtRoot ==
    (lastOp.kind = "Read" /\ IsRoot(lastOp.listed)) =>
        /\ lastOp.result = "Ok"
        /\ cursors[0].state = Some(lastOp.elems)
        /\ Range(lastOp.elems) = Range(call.output)

-----------------------------------------------------------------------------
(* C19..C20: the path of a cursor *)

\* list() cannot resolve the virtual path on the table m
C19_Invalid(m, path) ==
    \/ HasDotDot(path)
    \/ NormalSegs(path) # << >> /\ ~Occupied(m, NormalSegs(path)[1])

C19_MoveStep ==
    (lastOp'.kind = "Move" /\ Live(cursors, lastOp'.id)) =>
        /\ lastOp'.result = "Ok"
        /\ lastOp'.listed = None
        /\ lastOp'.used = None
        /\ map' = map
        /\ PathEq(cursors'[lastOp'.id].path, lastOp'.path)
        /\ ~PathEq(cursors[lastOp'.id].path, lastOp'.path)
              => cursors'[lastOp'.id].path = lastOp'.path

C19_ReadStep ==
    (lastOp'.kind = "Read" /\ Live(cursors, lastOp'.id)) =>
        /\ lastOp'.listed = cursors[lastOp'.id].path
        /\ C19_Invalid(map, cursors[lastOp'.id].path) => lastOp'.result = "ReadError"
        /\ lastOp'.result = "ReadError" =>
              /\ lastOp'.value = cursors[lastOp'.id].path
              /\ lastOp'.value = cursors'[lastOp'.id].path

\* C19: Move of a live cursor succeeds for every path, one with ".." or
\* with an unmapped first name included, and does not call the namespace;
\* the next Read of the cursor calls it with the cursor's path and, the
\* path being invalid, fails with ReadError carrying that path.
C19_LazyValidation == [][C19_MoveStep /\ C19_ReadStep]_vars

\* a Read failed on the path with ".." a Move had put the cursor at
C19_Witness ==
    /\ lastOp.kind = "Read"
    /\ lastOp.result = "ReadError"
    /\ lastOp.value = "demo/.."
    /\ Mapped(map, "/tmp/demo")

C20_Step ==
    /\ (lastOp'.kind = "GetLocation" /\ Live(cursors, lastOp'.id)) =>
          /\ lastOp'.result = "Ok"
          /\ lastOp'.value = cursors[lastOp'.id].path
          /\ cursors' = cursors
          /\ map' = map
          /\ lastOp'.listed = None
    /\ (lastOp'.kind = "Create" /\ lastOp'.result = "Ok") =>
          cursors'[lastOp'.id].path = ""
    /\ \A id \in DOMAIN cursors \cap DOMAIN cursors' :
          cursors'[id].path # cursors[id].path =>
              /\ lastOp'.kind = "Move"
              /\ lastOp'.id = id
              /\ ~PathEq(cursors[id].path, lastOp'.path)
              /\ cursors'[id].path = lastOp'.path

\* C20: GetLocation of a live cursor returns the cursor's path and changes
\* nothing, without calling the namespace; that path is the root from
\* Create on, and changes only by a Move to a path that differs from it,
\* to the path of that Move.
C20_Location == [][C20_Step]_vars

\* GetLocation returned the path of a Move, the cursor holding a cache
C20_Witness ==
    /\ lastOp.kind = "GetLocation"
    /\ lastOp.result = "Ok"
    /\ lastOp.value = "demo"
    /\ lastOp.cached
    /\ cursors[lastOp.id].state # NoState

-----------------------------------------------------------------------------
(* C24 *)

C24_Step ==
    (lastOp'.kind = "Read" /\ lastOp'.result = "ReadError") =>
        /\ Live(cursors, lastOp'.id)
        /\ cursors' = cursors
        /\ lastOp'.value = cursors[lastOp'.id].path
        /\ lastOp'.cached = (cursors'[lastOp'.id].state # NoState)

\* C24: a Read that fails with ReadError leaves the browser as it was: the
\* cursor keeps its path and its cache, a present one staying present and
\* an absent one absent, and no other cursor changes.
C24_FailedReadFrame == [][C24_Step]_vars

\* a Read failed on a cursor that holds the listing of an earlier Read at
\* the same path, the mount gone since
C24_Witness ==
    /\ lastOp.kind = "Read"
    /\ lastOp.result = "ReadError"
    /\ lastOp.cached
    /\ lastOp.value = "demo"
    /\ cursors[lastOp.id].path = "demo"
    /\ cursors[lastOp.id].state # NoState
    /\ Len(cursors[lastOp.id].state[1]) > 0

-----------------------------------------------------------------------------
(* Browser::create_cursor, one draw at a time *)

\* lines 86-90: the test of the limit, before the loop
CreateCall ==
    /\ ~sampling
    /\ IF create_cursor(cursors, 0).tag = "CursorLimitReached"
       THEN /\ lastOp' = Op("Create", NoId, None, "CursorLimitReached", None)
            /\ sampling' = FALSE
       ELSE /\ lastOp' = Op("CreateCall", NoId, None, None, None)
            /\ sampling' = TRUE
    /\ UNCHANGED <<map, cursors, conns, server, call, lock, cli, wire>>

\* one turn of the loop of lines 92-104: the id drawn is live and the loop
\* turns again, or it is vacant and the call returns it
Draw(id) ==
    /\ sampling
    /\ LET out == create_cursor(cursors, id)
       IN  /\ cursors' = out.cursors
           /\ sampling' = (out.tag = "Retry")
           /\ lastOp' = Op("Create", out.value, None, out.tag, None)
    /\ UNCHANGED <<map, conns, server, call, lock, cli, wire>>

\* the browser belongs to one task: no other call starts inside the loop
NextCreate ==
    \/ CreateCall
    \/ \E id \in Ids : Draw(id)
    \/ ~sampling /\ \E id \in Ids : Destroy(id) /\ UNCHANGED sampling
    \/ ~sampling /\ \E id \in Ids : Read(id) /\ UNCHANGED sampling
    \/ ~sampling /\ \E id \in Ids, path \in MovePaths : Move(id, path) /\ UNCHANGED sampling
    \/ ~sampling /\ \E p \in MountPaths : Add(p) /\ UNCHANGED sampling

\* Uniform::sample over 0..=u16::MAX: a loop that keeps drawing draws, with
\* probability one, an id that is vacant
FairDraw == WF_vars(\E id \in Ids \ DOMAIN cursors : Draw(id))

\* a browser whose create_cursor draws until it finds a vacant id
SpecCreate == Init /\ [][NextCreate]_vars /\ FairDraw

-----------------------------------------------------------------------------
(* C23 *)

C23_FreeId ==
    sampling =>
        /\ Cardinality(DOMAIN cursors) < CursorLimit
        /\ Ids \ DOMAIN cursors # {}

C23_Step ==
    /\ (lastOp'.kind = "Create" /\ lastOp'.result = "Ok") =>
          /\ sampling /\ ~sampling'
          /\ lastOp'.id \notin DOMAIN cursors
          /\ DOMAIN cursors' = DOMAIN cursors \cup {lastOp'.id}
          /\ cursors'[lastOp'.id] = Cursor("", NoState)
          /\ \A id \in DOMAIN cursors : cursors'[id] = cursors[id]
          /\ map' = map
    /\ (lastOp'.kind = "Create" /\ lastOp'.result = "Retry") =>
          /\ sampling /\ sampling'
          /\ cursors' = cursors
    /\ (lastOp'.kind = "Create" /\ lastOp'.result = "CursorLimitReached") =>
          /\ Cardinality(DOMAIN cursors) >= CursorLimit
          /\ cursors' = cursors

C23_Returns == sampling ~> (~sampling /\ lastOp.kind = "Create" /\ lastOp.result = "Ok")

\* C23: a Create called below the limit always has a vacant id to draw and,
\* the draws being fair, returns; the id it returns was not live before,
\* the new cursor stands at the root without a cache, and every cursor
\* that was live keeps its id, its path and its cache.
C23_CreateBelowLimit == []C23_FreeId /\ [][C23_Step]_vars /\ C23_Returns

\* Create returned the last id below the limit, beside a cursor that has
\* moved and holds a cache
C23_Witness ==
    /\ lastOp.kind = "Create"
    /\ lastOp.result = "Ok"
    /\ ~sampling
    /\ Cardinality(DOMAIN cursors) = CursorLimit
    /\ cursors[lastOp.id] = Cursor("", NoState)
    /\ \E id \in DOMAIN cursors \ {lastOp.id} :
          /\ cursors[id].path = "demo"
          /\ cursors[id].state # NoState

-----------------------------------------------------------------------------
(* The lock of the name table: list() of a connection's task beside add()  *)
(* and remove() of the operator's thread                                   *)

\* the two tasks that take the lock are named "list", the task of the
\* connection inside list(), and "cli", the operator's thread

\* RwLock::read returns: no writer holds the lock
CanRead(l) == l.writer = None

\* a writer let in beside the readers
CanWriteBesideReaders(l) == l.writer = None

\* RwLock::write returns: nobody holds the lock
CanWrite(l) == l.writer = None /\ l.readers = {}

\* the guard kept beyond the statement that took it
ReleasedNever(l, t) == l

\* the guard of task t is dropped
Released(l, t) ==
    [readers |-> l.readers \ {t}, writer |-> IF l.writer = t THEN None ELSE l.writer]

\* the real paths the operator adds and removes while a listing runs: two
\* paths with one final component, the second missing on the host, and a
\* relative path
LockPaths == { "/a/b/foo.txt", "/c/d/foo.txt", "foo.txt" }

\* the virtual paths of the cursor that is read: the root, a mapped
\* directory, a name that is not mapped, a path parse_path refuses
LockCursorPaths == { "", "x", "nope", "x/.." }

\* read_cursor calls list(): line 206, parse_path
ListCall ==
    /\ call.pc = "idle"
    /\ Live(cursors, 0)
    /\ LET path   == cursors[0].path
           parsed == parse_path(path)
       IN  /\ call' = IF parsed.tag = "Err"
                      THEN Call("returned", path, << >>, 1, << >>, "PathNotFound", None)
                      ELSE IF parsed.tag = "Root"
                      THEN Call("read_root", path, << >>, 1, << >>, None, None)
                      ELSE Call("read_ext", path, << >>, 1, << >>, None, None)
    /\ UNCHANGED <<map, cursors, lastOp, conns, server, lock, cli, sampling, wire>>

\* self.map.read() of line 210 or of line 224 returns
ListLock ==
    /\ call.pc \in {"read_root", "read_ext"}
    /\ CanRead(lock)
    /\ lock' = [lock EXCEPT !.readers = @ \cup {"list"}]
    /\ call' = [call EXCEPT !.pc = IF @ = "read_root" THEN "iter" ELSE "lookup",
                            !.snapshot = map]
    /\ UNCHANGED <<map, cursors, lastOp, conns, server, cli, sampling, wire>>

\* lines 212-213: the iterator yields one more entry of the table, copied
ListIter(e) ==
    /\ call.pc = "iter"
    /\ e \in map
    /\ e \notin Range(call.pairs)
    /\ call' = [call EXCEPT !.pairs = Append(@, e)]
    /\ UNCHANGED <<map, cursors, lastOp, conns, server, lock, cli, sampling, wire>>

\* lines 214-219: the iterator is at its end, the guard is dropped with the
\* statement, the fetches are spawned in the order of the copy
ListSpawnRoot ==
    /\ call.pc = "iter"
    /\ map \subseteq Range(call.pairs)
    /\ lock' = Released(lock, "list")
    /\ call' = [call EXCEPT !.pc = "joining",
                            !.handles = [i \in 1..Len(call.pairs) |->
                                            Handle(call.pairs[i].name, call.pairs[i].path)]]
    /\ lastOp' = Op("ListSpawn", 0, call.path, None, None)
    /\ UNCHANGED <<map, cursors, conns, server, cli, sampling, wire>>

\* lines 225-229: the lookup of the root element and the join, then the
\* guard is dropped with the block, or with the early return of line 226
ListLookup ==
    /\ call.pc = "lookup"
    /\ LET parsed == parse_path(call.path)
       IN  call' = IF ~Occupied(map, parsed.root_element)
                   THEN [call EXCEPT !.pc = "returned", !.tag = "PathNotFound"]
                   ELSE [call EXCEPT !.pc = "read_dir",
                                     !.used = Join(Get(map, parsed.root_element),
                                                   parsed.extension)]
    /\ lock' = Released(lock, "list")
    /\ UNCHANGED <<map, cursors, lastOp, conns, server, cli, sampling, wire>>

\* lines 231-243: read_dir and next_entry answer, the fetches are spawned
ReadDir ==
    /\ call.pc = "read_dir"
    /\ IF ~HostIsDir(call.used)
       THEN call' = [call EXCEPT !.pc = "returned", !.tag = "PathNotFound"]
       ELSE \E handles \in Spawned({ Entry(n, Join(call.used, n)) :
                                       n \in HostChildren(call.used) }) :
               call' = [call EXCEPT !.pc = "joining", !.handles = handles]
    /\ UNCHANGED <<map, cursors, lastOp, conns, server, lock, cli, sampling, wire>>

\* add(path) up to line 139, or remove(path), is called: add returns at
\* once for a path that is not absolute.  The operator adds paths the table
\* does not hold; its calls are followed that start before list() has
\* returned
CliCall(kind, path) ==
    /\ cli.pc = "idle"
    /\ kind = "Add" => ~Mapped(map, path)
    /\ IF kind = "Add" /\ add(map, path).tag # "Ok"
       THEN /\ cli' = cli
            /\ lastOp' = Op("Add", NoId, path, add(map, path).tag, None)
       ELSE /\ cli' = [pc |-> "wait", kind |-> kind, path |-> path]
            /\ lastOp' = lastOp
    /\ call.pc \notin {"returned", "done"}
    /\ UNCHANGED <<map, cursors, conns, server, call, lock, sampling, wire>>

\* self.map.write() of line 139 or of line 181 returns
CliLock ==
    /\ cli.pc = "wait"
    /\ CanWrite(lock)
    /\ lock' = [lock EXCEPT !.writer = "cli"]
    /\ cli' = [cli EXCEPT !.pc = "locked"]
    /\ UNCHANGED <<map, cursors, lastOp, conns, server, call, sampling, wire>>

\* the loop of add(), lines 140-171, or retain() of line 181, and the guard
\* is dropped
CliReturn ==
    /\ cli.pc = "locked"
    /\ map' = IF cli.kind = "Add" THEN add(map, cli.path).map ELSE remove(map, cli.path)
    /\ lock' = Released(lock, "cli")
    /\ cli' = NoCli
    /\ lastOp' = [Op(cli.kind, NoId, cli.path, "Ok", None)
                    EXCEPT !.mapped = Mapped(map, cli.path)]
    /\ UNCHANGED <<cursors, conns, server, call, sampling, wire>>

\* a cursor at a virtual path about to be read; the table is empty, or
\* holds the directory the cursor stands in
InitLock ==
    /\ cursors \in { [id \in {0} |-> Cursor(path, NoState)] : path \in LockCursorPaths }
    /\ map = IF cursors[0].path = "x" THEN AddAll({}, <<"/x">>) ELSE {}
    /\ lastOp = Op("Init", NoId, None, None, None)
    /\ conns = << >>
    /\ server = ServerStart
    /\ call = NoCall
    /\ lock = Unlocked
    /\ cli = NoCli
    /\ sampling = FALSE
    /\ wire = NoWire

\* what list() does while it holds the lock
ListLocked == (\E e \in map : ListIter(e)) \/ ListSpawnRoot \/ ListLookup

NextLock ==
    \/ ListCall
    \/ ListLock
    \/ ListLocked
    \/ ReadDir
    \/ \E k \in 1..(MaxEntries + 1) : FetchEnd(k)
    \/ AwaitHandle
    \/ ListReturn
    \/ ReadReturn
    \/ \E kind \in {"Add", "Remove"}, path \in LockPaths : CliCall(kind, path)
    \/ CliLock
    \/ CliReturn

\* list() runs on from taking the lock to the drop of its guard: there is
\* no await in between; a thread blocked in write() gets the lock once it
\* stays free.  Nothing is assumed of the host calls, read_dir and metadata
FairLock ==
    /\ WF_vars(ListLocked)
    /\ WF_vars(CliLock)

\* one Read of a cursor while the operator adds and removes
SpecLock == InitLock /\ [][NextLock]_vars /\ FairLock

-----------------------------------------------------------------------------
(* C22 *)

\* the tasks that hold the lock, shared or exclusive
Holders(l) == l.readers \cup (IF l.writer = None THEN {} ELSE {l.writer})

\* a host call on behalf of the list() call has been started and has not
\* answered: read_dir, or the metadata of a spawned fetch
HostCallInProgress ==
    \/ call.pc = "read_dir"
    \/ \E k \in DOMAIN call.handles : call.handles[k].status = "running"

C22_NoLockAcrossHostCall ==
    /\ HostCallInProgress => "list" \notin Holders(lock)
    /\ "list" \in Holders(lock) => call.pc \in {"iter", "lookup"}
    /\ "cli" \in Holders(lock) => cli.pc = "locked"
    /\ lock.writer # None => lock.readers = {}

C22_Acquires == (cli.pc = "wait") ~> (cli.pc = "locked")

\* C22: no task holds the lock of the name table, shared or exclusive,
\* while a host call of that task, read_dir or a metadata fetch, is in
\* progress; so an add() or remove() waiting for the exclusive lock gets
\* it, even if the fetches of a listing never answer.
C22_LockDiscipline == []C22_NoLockAcrossHostCall /\ C22_Acquires

\* the operator holds the exclusive lock while a fetch of the listing has
\* not answered
C22_Witness ==
    /\ lock.writer = "cli"
    /\ cli.pc = "locked"
    /\ call.pc = "joining"
    /\ \E k \in DOMAIN call.handles : call.handles[k].status = "running"

-----------------------------------------------------------------------------
(* C25 *)

C25_Names(elements) == { elements[i].name : i \in DOMAIN elements }

C25_Snapshot ==
    /\ call.pc = "iter" =>
          /\ "list" \in lock.readers
          /\ map = call.snapshot
          /\ Range(call.pairs) \subseteq call.snapshot
    /\ (call.pc \in {"joining", "returned", "done"} /\ IsRoot(call.path)) =>
          /\ { Entry(h.name, h.path) : h \in Range(call.handles) } = call.snapshot
          /\ Len(call.handles) = Cardinality(call.snapshot)
          /\ Cardinality(C25_Names(call.output)) = Len(call.output)
          /\ \A i \in DOMAIN call.output :
                \E e \in call.snapshot :
                    /\ HostHas(e.path)
                    /\ call.output[i] = FSElement(e.name, HostEntry(e.path))

C25_Step ==
    /\ (call.pc = "read_root" /\ call'.pc = "iter") =>
          /\ call'.snapshot = map
          /\ map' = map
    /\ "list" \in lock.readers => map' = map
    /\ (lastOp'.kind = "Read" /\ lastOp'.result = "Ok" /\ call.pc = "returned"
          /\ IsRoot(call.path)) =>
          /\ Cardinality(C25_Names(lastOp'.elems)) = Len(lastOp'.elems)
          /\ \A i \in DOMAIN lastOp'.elems :
                \E e \in call.snapshot :
                    /\ HostHas(e.path)
                    /\ lastOp'.elems[i] = FSElement(e.name, HostEntry(e.path))

\* C25: a listing of the root is made from the table as it stands at one
\* instant between the call and its return, the instant list() holds the
\* shared lock: whatever add() and remove() do meanwhile, the names of the
\* listing returned are pairwise distinct, and each is a name of the table
\* at that instant, with the element fetched from the real path the table
\* held for it then.
C25_AtomicSnapshot == []C25_Snapshot /\ [][C25_Step]_vars

\* a Read at the root returned foo.txt, fetched from the path the table
\* held at the instant of the lock, after the operator has removed it
C25_Witness ==
    /\ lastOp.kind = "Read"
    /\ lastOp.result = "Ok"
    /\ IsRoot(call.path)
    /\ call.pc = "done"
    /\ Entry("foo.txt", "/a/b/foo.txt") \in call.snapshot
    /\ "foo.txt" \in C25_Names(lastOp.elems)
    /\ ~Occupied(map, "foo.txt")

-----------------------------------------------------------------------------
(* A request on the wire: make_request of client.rs, rmp_serde and the     *)
(* BufStream, up to from_slice in handle_socket.  Bytes are 0..255, a path *)
(* is the byte sequence of its PathBuf                                     *)

\* capacity of the write buffer BufStream::new gives the socket
BufCapacity == 8192

\* write_u16 and read_u16: big-endian
U16Bytes(n) == <<n \div 256, n % 256>>
U16Value(b, i) == b[i] * 256 + b[i + 1]

\* Path::to_str(bytes) is Some, str::from_utf8(bytes) is Ok.  IsCont: a
\* continuation byte; LeadLen: the length of the sequence a byte leads, 0
\* if it leads none; SecondOk: the second byte allowed after a lead, which
\* rules out overlong forms, surrogates and what lies above U+10FFFF
IsUtf8(bytes) ==
    LET IsCont(b) == b >= 128 /\ b <= 191
        LeadLen(b) ==
            IF b < 128 THEN 1
            ELSE IF b >= 194 /\ b <= 223 THEN 2
            ELSE IF b >= 224 /\ b <= 239 THEN 3
            ELSE IF b >= 240 /\ b <= 244 THEN 4
            ELSE 0
        SecondOk(lead, b) ==
            IF lead = 224 THEN b >= 160 /\ b <= 191
            ELSE IF lead = 237 THEN b >= 128 /\ b <= 159
            ELSE IF lead = 240 THEN b >= 144 /\ b <= 191
            ELSE IF lead = 244 THEN b >= 128 /\ b <= 143
            ELSE IsCont(b)
    IN  \A s \in {bytes} : \A i \in 1..Len(s) :
            IF IsCont(s[i]) THEN i > 1
            ELSE LET n == LeadLen(s[i])
                 IN  /\ n > 0
                     /\ i + n - 1 <= Len(s)
                     /\ \A k \in 1..(n - 1) : IsCont(s[i + k])
                     /\ n > 1 => SecondOk(s[i], s[i + 1])
                     /\ i + n <= Len(s) => ~IsCont(s[i + n])

\* the names of the variants of Request, in ASCII
VariantName(kind) ==
    CASE kind = "Create"      -> <<67, 114, 101, 97, 116, 101>>
      [] kind = "Destroy"     -> <<68, 101, 115, 116, 114, 111, 121>>
      [] kind = "Read"        -> <<82, 101, 97, 100>>
      [] kind = "GetLocation" -> <<71, 101, 116, 76, 111, 99, 97, 116, 105, 111, 110>>
      [] kind = "Move"        -> <<77, 111, 118, 101>>

\* rmp_serde::to_vec(&request): a unit variant is its name, a variant with
\* fields a map of one entry from its name to the array of its fields; a
\* path is written as a str and only if it is UTF-8.  EncodeUint: an
\* unsigned integer in its shortest MessagePack form; EncodeStr: a str, its
\* header and its bytes.  ok: to_vec returned Ok
to_vec(request) ==
    LET EncodeUint(n) ==
            IF n < 128 THEN <<n>>
            ELSE IF n < 256 THEN <<204, n>>
            ELSE <<205>> \o U16Bytes(n)
        EncodeStr(bytes) ==
            LET n == Len(bytes)
            IN  (IF n < 32 THEN <<160 + n>>
                 ELSE IF n < 256 THEN <<217, n>>
                 ELSE IF n < 65536 THEN <<218>> \o U16Bytes(n)
                 ELSE <<219>> \o U16Bytes(n \div 65536) \o U16Bytes(n % 65536)) \o bytes
    IN  IF request.kind = "Create"
        THEN [ok |-> TRUE, bytes |-> EncodeStr(VariantName("Create"))]
        ELSE IF request.kind = "Move"
        THEN IF ~IsUtf8(request.path) THEN [ok |-> FALSE, bytes |-> << >>]
             ELSE [ok |-> TRUE,
                   bytes |-> <<129>> \o EncodeStr(VariantName("Move")) \o <<146>>
                               \o EncodeUint(request.id) \o EncodeStr(request.path)]
        ELSE [ok |-> TRUE,
              bytes |-> <<129>> \o EncodeStr(VariantName(request.kind)) \o <<145>>
                          \o EncodeUint(request.id)]

\* rmp_serde::from_slice::<Request>(b): the inverse reading, bytes after the
\* value are not looked at; the PathBuf is taken from a str that is UTF-8.
\* DecodeUint, DecodeStr: the unsigned integer and the str, as bytes, at
\* b[i..], with the index behind it.  ok: from_slice returned Ok
from_slice(b) ==
    LET Item(ok, value, next) == [ok |-> ok, value |-> value, next |-> next]
        DecodeUint(i) ==
            IF i > Len(b) THEN Item(FALSE, 0, i)
            ELSE IF b[i] < 128 THEN Item(TRUE, b[i], i + 1)
            ELSE IF b[i] = 204 /\ i + 1 <= Len(b) THEN Item(TRUE, b[i + 1], i + 2)
            ELSE IF b[i] = 205 /\ i + 2 <= Len(b) THEN Item(TRUE, U16Value(b, i + 1), i + 3)
            ELSE Item(FALSE, 0, i)
        DecodeStr(i) ==
            LET head == IF i > Len(b) THEN Item(FALSE, 0, i)
                        ELSE IF b[i] >= 160 /\ b[i] <= 191 THEN Item(TRUE, b[i] - 160, i + 1)
                        ELSE IF b[i] = 217 /\ i + 1 <= Len(b) THEN Item(TRUE, b[i + 1], i + 2)
                        ELSE IF b[i] = 218 /\ i + 2 <= Len(b)
                             THEN Item(TRUE, U16Value(b, i + 1), i + 3)
                        ELSE IF b[i] = 219 /\ i + 4 <= Len(b)
                             THEN Item(TRUE, U16Value(b, i + 1) * 65536 + U16Value(b, i + 3),
                                       i + 5)
                        ELSE Item(FALSE, 0, i)
            IN  IF head.ok /\ head.next + head.value - 1 <= Len(b)
                THEN Item(TRUE, SubSeq(b, head.next, head.next + head.value - 1),
                          head.next + head.value)
                ELSE Item(FALSE, << >>, i)
        Err == [ok |-> FALSE, request |-> NoWire.decoded]
        Ok(kind, id, path) ==
            [ok |-> TRUE, request |-> [kind |-> kind, id |-> id, path |-> path]]
    IN  IF Len(b) = 0 THEN Err
        ELSE IF b[1] # 129
        THEN LET name == DecodeStr(1)
             IN  IF name.ok /\ name.value = VariantName("Create")
                 THEN Ok("Create", NoId, << >>)
                 ELSE Err
        ELSE LET name  == DecodeStr(2)
                 kinds == IF name.ok
                          THEN { k \in {"Destroy", "Read", "GetLocation", "Move"} :
                                   VariantName(k) = name.value }
                          ELSE {}
             IN  IF kinds = {} \/ name.next > Len(b) THEN Err
                 ELSE LET kind == CHOOSE k \in kinds : TRUE
                          id   == DecodeUint(name.next + 1)
                          path == DecodeStr(id.next)
                      IN  IF b[name.next] # (IF kind = "Move" THEN 146 ELSE 145) \/ ~id.ok
                          THEN Err
                          ELSE IF kind # "Move" THEN Ok(kind, id.value, << >>)
                          ELSE IF path.ok /\ IsUtf8(path.value)
                          THEN Ok(kind, id.value, path.value)
                          ELSE Err

\* BufWriter::poll_write(data) on the buffer holding the two bytes of the
\* length: the counts it can return.  Data that fits the buffer is copied
\* whole; data of the capacity or more goes to the socket in one write,
\* which takes what the socket has room for
poll_write(data) ==
    IF Len(data) >= BufCapacity
    THEN { Len(data) \div 2, Len(data) - 1, Len(data) }
    ELSE { Len(data) }

\* the paths of the Move requests sent: empty, ASCII, characters of two,
\* three and four bytes, byte strings that are not UTF-8 (a byte that is no
\* lead, a continuation without lead, a lead without continuation, an
\* overlong form, a surrogate), and paths of n bytes "a" with n at the ends
\* of the forms of a str, at the capacity of the buffer and at the limit of
\* a frame
WirePaths ==
    LET Filler(n) == SubSeq([i \in 1..n |-> 97], 1, n)
    IN  { << >>, <<100, 101, 109, 111>>, <<100, 195, 169>>, <<226, 130, 172>>,
          <<240, 159, 152, 128>>,
          <<255>>, <<100, 128>>, <<195>>, <<192, 128>>, <<237, 160, 128>>,
          Filler(31), Filler(32), Filler(255), Filler(256),
          Filler(BufCapacity), Filler(U16Max) }

\* the requests sent: the ids at the ends of the three forms of an integer
WireRequests ==
    { [kind |-> "Create", id |-> NoId, path |-> << >>] }
      \cup { [kind |-> k, id |-> id, path |-> << >>] :
                k \in {"Destroy", "Read", "GetLocation"},
                id \in { 0, 127, 128, 255, 256, U16Max } }
      \cup { [kind |-> "Move", id |-> id, path |-> path] :
                id \in {0, U16Max}, path \in WirePaths }

WireFailed(cause) == [wire EXCEPT !.pc = "failed", !.cause = cause]

\* client.rs line 8
WireSerialize ==
    /\ wire.pc = "call"
    /\ LET out == to_vec(wire.request)
       IN  wire' = IF out.ok THEN [wire EXCEPT !.pc = "write_u16", !.data = out.bytes]
                   ELSE WireFailed("to_vec")
    /\ UNCHANGED <<map, cursors, lastOp, conns, server, call, lock, cli, sampling>>

\* line 10: data.len().try_into()? and write_u16
WireWriteLen ==
    /\ wire.pc = "write_u16"
    /\ wire' = IF Len(wire.data) > U16Max THEN WireFailed("try_into")
               ELSE [wire EXCEPT !.pc = "write", !.stream = U16Bytes(Len(wire.data))]
    /\ UNCHANGED <<map, cursors, lastOp, conns, server, call, lock, cli, sampling>>

\* line 11: stream.write(&data), the count it returns dropped
WireWrite ==
    /\ wire.pc = "write"
    /\ \E n \in poll_write(wire.data) :
          wire' = [wire EXCEPT !.pc = "flush", !.stream = @ \o SubSeq(wire.data, 1, n)]
    /\ UNCHANGED <<map, cursors, lastOp, conns, server, call, lock, cli, sampling>>

\* line 12: flush; make_request goes on to wait for the response
WireFlush ==
    /\ wire.pc = "flush"
    /\ wire' = [wire EXCEPT !.pc = "read_u16"]
    /\ UNCHANGED <<map, cursors, lastOp, conns, server, call, lock, cli, sampling>>

\* server.rs line 33
WireReadLen ==
    /\ wire.pc = "read_u16"
    /\ wire' = [wire EXCEPT !.pc = "read_exact", !.want = U16Value(wire.stream, 1),
                            !.stream = SubSeq(@, 3, Len(@))]
    /\ UNCHANGED <<map, cursors, lastOp, conns, server, call, lock, cli, sampling>>

\* lines 34-38: read_exact fills the slice; with fewer bytes than the
\* length sent, and the client waiting for the response, it never returns
WireReadExact ==
    /\ wire.pc = "read_exact"
    /\ wire' = IF Len(wire.stream) < wire.want THEN WireFailed("read_exact")
               ELSE [wire EXCEPT !.pc = "from_slice",
                                 !.slice = SubSeq(wire.stream, 1, wire.want),
                                 !.stream = SubSeq(@, wire.want + 1, Len(@))]
    /\ UNCHANGED <<map, cursors, lastOp, conns, server, call, lock, cli, sampling>>

\* line 40
WireDecode ==
    /\ wire.pc = "from_slice"
    /\ LET out == from_slice(wire.slice)
       IN  wire' = IF out.ok THEN [wire EXCEPT !.pc = "decoded", !.decoded = out.request]
                   ELSE WireFailed("from_slice")
    /\ UNCHANGED <<map, cursors, lastOp, conns, server, call, lock, cli, sampling>>

\* a request handed to make_request
InitWire ==
    /\ map = {}
    /\ cursors = << >>
    /\ lastOp = Op("Init", NoId, None, None, None)
    /\ conns = << >>
    /\ server = ServerStart
    /\ call = NoCall
    /\ lock = Unlocked
    /\ cli = NoCli
    /\ sampling = FALSE
    /\ wire \in { [NoWire EXCEPT !.pc = "call", !.request = r] : r \in WireRequests }

NextWire ==
    \/ WireSerialize
    \/ WireWriteLen
    \/ WireWrite
    \/ WireFlush
    \/ WireReadLen
    \/ WireReadExact
    \/ WireDecode

\* one request from the value in the client to the value in the server
SpecWire == InitWire /\ [][NextWire]_vars

-----------------------------------------------------------------------------
(* C21 *)

\* C21: for every request kind and every value of its fields, Move paths
\* with bytes that are not ASCII included, the request serialized, framed
\* behind its two length bytes, read back and deserialized arrives, and
\* arrives equal to the request sent.
C21_RoundTrip ==
    /\ wire.pc # "failed"
    /\ wire.pc = "decoded" => wire.decoded = wire.request

\* the requests the exchange carries: the path is UTF-8 and the encoding
\* is shorter than the write buffer
C21_Carried(request) ==
    /\ IsUtf8(request.path)
    /\ to_vec(request).ok
    /\ Len(to_vec(request).bytes) < BufCapacity

\* what does hold: a request whose path is UTF-8 and whose encoding is
\* shorter than the write buffer arrives equal; a path of other bytes
\* fails in to_vec, and nothing decoded ever differs from what was sent
C21_RoundTripOfText ==
    /\ wire.pc = "decoded" => wire.decoded = wire.request
    /\ C21_Carried(wire.request) => wire.pc # "failed"
    /\ (wire.pc = "failed" /\ wire.cause = "to_vec") => ~IsUtf8(wire.request.path)

====
